---- MODULE Spec2Model ----
(***************************************************************************)
(* Model of the scripts of the Solr deployment.                            *)
(*                                                                         *)
(* scripts/hash-password.py: the Solr credential hasher (double SHA-256    *)
(* over salt || utf8(password), base64 "HASH SALT" records), its           *)
(* verification, the credential-store loader, the verify-and-reuse helper  *)
(* and the command-line entry point.                                       *)
(*                                                                         *)
(* scripts/health-api.py: the health aggregator, one request at a time,    *)
(* its three requests to Solr one step each.                               *)
(*                                                                         *)
(* scripts/add-query-performance-dashboard.py and                          *)
(* scripts/add-grafana-templating.py: the two scripts that rewrite the     *)
(* Grafana dashboard file.                                                 *)
(*                                                                         *)
(* Text (Python str) is a sequence of Unicode code points, binary data     *)
(* (Python bytes) a sequence of 0..255.  A 32-bit word of SHA-256 is the   *)
(* pair <<high 16 bits, low 16 bits>>, so that no intermediate value       *)
(* leaves the range of 32-bit signed integers.                             *)
(***************************************************************************)
EXTENDS Integers, Sequences, FiniteSets, TLC

(***************************************************************************)
(* hashlib.sha256                                                          *)
(***************************************************************************)
\* FIPS 180-4 round constants, each 32-bit word as <<high 16 bits, low 16 bits>>
SHA256_K ==
  <<<<17034,12184>>, <<28983,17553>>, <<46528,64463>>, <<59829,56229>>,
    <<14678,49755>>, <<23025,4593>>, <<37439,33444>>, <<43804,24277>>,
    <<55303,43672>>, <<4739,23297>>, <<9265,34238>>, <<21772,32195>>,
    <<29374,23924>>, <<32990,45566>>, <<39900,1703>>, <<49563,61812>>,
    <<58523,27073>>, <<61374,18310>>, <<4033,40390>>, <<9228,41420>>,
    <<11753,11375>>, <<19060,33962>>, <<23728,43484>>, <<30457,35034>>,
    <<38974,20818>>, <<43057,50797>>, <<45059,10184>>, <<48985,32711>>,
    <<50912,3059>>, <<54695,37191>>, <<1738,25425>>, <<5161,10599>>,
    <<10167,2693>>, <<11803,8504>>, <<19756,28156>>, <<21304,3347>>,
    <<25866,29524>>, <<30314,2747>>, <<33218,51502>>, <<37490,11397>>,
    <<41663,59553>>, <<43034,26187>>, <<49739,35696>>, <<51052,20899>>,
    <<53650,59417>>, <<54937,1572>>, <<62478,13701>>, <<4202,41072>>,
    <<6564,49430>>, <<7735,27656>>, <<10056,30540>>, <<13488,48309>>,
    <<14620,3251>>, <<20184,43594>>, <<23452,51791>>, <<26670,28659>>,
    <<29839,33518>>, <<30885,25455>>, <<33992,30740>>, <<36039,520>>,
    <<37054,65530>>, <<42064,27883>>, <<48889,41975>>, <<50801,30962>>>>

\* FIPS 180-4 initial hash value
SHA256_H0 ==
  <<<<27145,58983>>, <<47975,44677>>, <<15470,62322>>, <<42319,62778>>,
    <<20750,21119>>, <<39685,26764>>, <<8067,55723>>, <<23520,52505>>>>

\* bitwise XOR and AND of two 4-bit values, indexed [a + 1][b + 1]
XorNibble ==
  <<<<0,1,2,3,4,5,6,7,8,9,10,11,12,13,14,15>>,
    <<1,0,3,2,5,4,7,6,9,8,11,10,13,12,15,14>>,
    <<2,3,0,1,6,7,4,5,10,11,8,9,14,15,12,13>>,
    <<3,2,1,0,7,6,5,4,11,10,9,8,15,14,13,12>>,
    <<4,5,6,7,0,1,2,3,12,13,14,15,8,9,10,11>>,
    <<5,4,7,6,1,0,3,2,13,12,15,14,9,8,11,10>>,
    <<6,7,4,5,2,3,0,1,14,15,12,13,10,11,8,9>>,
    <<7,6,5,4,3,2,1,0,15,14,13,12,11,10,9,8>>,
    <<8,9,10,11,12,13,14,15,0,1,2,3,4,5,6,7>>,
    <<9,8,11,10,13,12,15,14,1,0,3,2,5,4,7,6>>,
    <<10,11,8,9,14,15,12,13,2,3,0,1,6,7,4,5>>,
    <<11,10,9,8,15,14,13,12,3,2,1,0,7,6,5,4>>,
    <<12,13,14,15,8,9,10,11,4,5,6,7,0,1,2,3>>,
    <<13,12,15,14,9,8,11,10,5,4,7,6,1,0,3,2>>,
    <<14,15,12,13,10,11,8,9,6,7,4,5,2,3,0,1>>,
    <<15,14,13,12,11,10,9,8,7,6,5,4,3,2,1,0>>>>

AndNibble ==
  <<<<0,0,0,0,0,0,0,0,0,0,0,0,0,0,0,0>>,
    <<0,1,0,1,0,1,0,1,0,1,0,1,0,1,0,1>>,
    <<0,0,2,2,0,0,2,2,0,0,2,2,0,0,2,2>>,
    <<0,1,2,3,0,1,2,3,0,1,2,3,0,1,2,3>>,
    <<0,0,0,0,4,4,4,4,0,0,0,0,4,4,4,4>>,
    <<0,1,0,1,4,5,4,5,0,1,0,1,4,5,4,5>>,
    <<0,0,2,2,4,4,6,6,0,0,2,2,4,4,6,6>>,
    <<0,1,2,3,4,5,6,7,0,1,2,3,4,5,6,7>>,
    <<0,0,0,0,0,0,0,0,8,8,8,8,8,8,8,8>>,
    <<0,1,0,1,0,1,0,1,8,9,8,9,8,9,8,9>>,
    <<0,0,2,2,0,0,2,2,8,8,10,10,8,8,10,10>>,
    <<0,1,2,3,0,1,2,3,8,9,10,11,8,9,10,11>>,
    <<0,0,0,0,4,4,4,4,8,8,8,8,12,12,12,12>>,
    <<0,1,0,1,4,5,4,5,8,9,8,9,12,13,12,13>>,
    <<0,0,2,2,4,4,6,6,8,8,10,10,12,12,14,14>>,
    <<0,1,2,3,4,5,6,7,8,9,10,11,12,13,14,15>>>>

XorByte(a, b) ==
  XorNibble[(a \div 16) + 1][(b \div 16) + 1] * 16 + XorNibble[(a % 16) + 1][(b % 16) + 1]

AndByte(a, b) ==
  AndNibble[(a \div 16) + 1][(b \div 16) + 1] * 16 + AndNibble[(a % 16) + 1][(b % 16) + 1]

XorByteTable == [a \in 0..255 |-> [b \in 0..255 |-> XorByte(a, b)]]

AndByteTable == [a \in 0..255 |-> [b \in 0..255 |-> AndByte(a, b)]]

Xor16(x, y) == XorByteTable[x \div 256][y \div 256] * 256 + XorByteTable[x % 256][y % 256]

And16(x, y) == AndByteTable[x \div 256][y \div 256] * 256 + AndByteTable[x % 256][y % 256]

WXor(a, b) == <<Xor16(a[1], b[1]), Xor16(a[2], b[2])>>

WAnd(a, b) == <<And16(a[1], b[1]), And16(a[2], b[2])>>

WNot(a) == <<65535 - a[1], 65535 - a[2]>>

\* addition modulo 2^32
WAdd(a, b) ==
  LET lo == a[2] + b[2]
      hi == a[1] + b[1] + (lo \div 65536)
  IN <<hi % 65536, lo % 65536>>

\* rotate right by n bits, 0 < n < 32, n # 16
Rotr(w, n) ==
  LET v == IF n >= 16 THEN <<w[2], w[1]>> ELSE w
      k == IF n >= 16 THEN n - 16 ELSE n
      p == 2 ^ k
      q == 2 ^ (16 - k)
  IN <<(v[1] \div p) + (v[2] % p) * q, (v[2] \div p) + (v[1] % p) * q>>

\* shift right by n bits, 0 < n < 16
Shr(w, n) ==
  LET p == 2 ^ n
      q == 2 ^ (16 - n)
  IN <<w[1] \div p, (w[2] \div p) + (w[1] % p) * q>>

BigSigma0(x) == WXor(WXor(Rotr(x, 2), Rotr(x, 13)), Rotr(x, 22))

BigSigma1(x) == WXor(WXor(Rotr(x, 6), Rotr(x, 11)), Rotr(x, 25))

SmallSigma0(x) == WXor(WXor(Rotr(x, 7), Rotr(x, 18)), Shr(x, 3))

SmallSigma1(x) == WXor(WXor(Rotr(x, 17), Rotr(x, 19)), Shr(x, 10))

Ch(x, y, z) == WXor(WAnd(x, y), WAnd(WNot(x), z))

Maj(x, y, z) == WXor(WXor(WAnd(x, y), WAnd(x, z)), WAnd(y, z))

\* word t of the message schedule, from the words before it
NextWord(w, t) ==
  WAdd(WAdd(SmallSigma1(w[t - 2]), w[t - 7]), WAdd(SmallSigma0(w[t - 15]), w[t - 16]))

\* the message schedule w, which holds words 1..lo-1, extended by words
\* lo..hi, the range being halved so that the evaluation stays shallow.
\* (The tests on Len in ScheduleTo, RoundsTo and Rounds hold of no argument
\* these operators are applied to; they fix the order of evaluation.)
RECURSIVE ScheduleTo(_, _, _)
ScheduleTo(w, lo, hi) ==
  IF Len(w) # lo - 1 THEN w
  ELSE IF lo = hi THEN Append(w, NextWord(w, lo))
  ELSE ScheduleTo(ScheduleTo(w, lo, (lo + hi) \div 2), (lo + hi) \div 2 + 1, hi)

\* the message schedule W[1..64] of one block, from its first 16 words
Schedule(w) == ScheduleTo(w, 17, 64)

\* the two temporaries of a round on the working variables s = <<a,..,h>>
T1(s, k, w) == WAdd(WAdd(WAdd(s[8], BigSigma1(s[5])), WAdd(Ch(s[5], s[6], s[7]), k)), w)

T2(s) == WAdd(BigSigma0(s[1]), Maj(s[1], s[2], s[3]))

Round(s, t1, t2) == <<WAdd(t1, t2), s[1], s[2], s[3], WAdd(s[4], t1), s[5], s[6], s[7]>>

\* rounds lo..hi of the compression function on the working variables s,
\* the range being halved so that the evaluation stays shallow
RECURSIVE RoundsTo(_, _, _, _)
RoundsTo(s, w, lo, hi) ==
  IF Len(s) # 8 THEN s
  ELSE IF lo = hi THEN Round(s, T1(s, SHA256_K[lo], w[lo]), T2(s))
  ELSE RoundsTo(RoundsTo(s, w, lo, (lo + hi) \div 2), w, (lo + hi) \div 2 + 1, hi)

\* the 64 rounds over the schedule w
Rounds(s, w) == IF Len(w) # 64 THEN s ELSE RoundsTo(s, w, 1, 64)

\* the 16 big-endian words of a 64-byte block
BlockWords(block) ==
  [i \in 1..16 |-> <<block[4 * i - 3] * 256 + block[4 * i - 2],
                     block[4 * i - 1] * 256 + block[4 * i]>>]

AddState(h, s) == [i \in 1..8 |-> WAdd(h[i], s[i])]

Compress(h, block) == AddState(h, Rounds(h, Schedule(BlockWords(block))))

\* message padding: 0x80, zeros up to 56 mod 64, then the bit length as 64-bit big-endian
Pad(msg) ==
  LET n == Len(msg)
      z == (119 - n) % 64
      bits == 8 * n
  IN msg \o <<128>> \o [i \in 1..z |-> 0] \o <<0, 0, 0, 0>>
       \o <<(bits \div 16777216) % 256, (bits \div 65536) % 256, (bits \div 256) % 256, bits % 256>>

RECURSIVE Blocks(_, _)
Blocks(h, m) ==
  IF Len(m) = 0 THEN h ELSE Blocks(Compress(h, SubSeq(m, 1, 64)), SubSeq(m, 65, Len(m)))

RECURSIVE Flatten(_)
Flatten(ws) ==
  IF ws = <<>> THEN <<>>
  ELSE <<Head(ws)[1] \div 256, Head(ws)[1] % 256, Head(ws)[2] \div 256, Head(ws)[2] % 256>>
         \o Flatten(Tail(ws))

\* hashlib.sha256(msg).digest(): 32 bytes
SHA256(msg) == Flatten(Blocks(SHA256_H0, Pad(msg)))

(***************************************************************************)
(* Text and binary codecs of the Python runtime used by the script         *)
(***************************************************************************)

\* str.isspace() of one code point: what str.strip() removes
IsSpace(c) ==
  \/ c \in 9..13 \/ c \in 28..32 \/ c = 133 \/ c = 160 \/ c = 5760
  \/ c \in 8192..8202 \/ c = 8232 \/ c = 8233 \/ c = 8239 \/ c = 8287 \/ c = 12288

RECURSIVE LStrip(_)
LStrip(s) == IF s # <<>> /\ IsSpace(Head(s)) THEN LStrip(Tail(s)) ELSE s

RECURSIVE RStrip(_)
RStrip(s) == IF s # <<>> /\ IsSpace(s[Len(s)]) THEN RStrip(SubSeq(s, 1, Len(s) - 1)) ELSE s

\* str.strip()
Strip(s) == RStrip(LStrip(s))

\* the number of separators among the first i characters of s
SepCount(s, sep, i) == Cardinality({j \in 1..i : s[j] = sep})

\* the index of the k-th separator of s; 0 before the first and Len(s) + 1
\* after the last
SepIndex(s, sep, k) ==
  IF k = 0 THEN 0
  ELSE IF k > SepCount(s, sep, Len(s)) THEN Len(s) + 1
  ELSE CHOOSE i \in 1..Len(s) : s[i] = sep /\ SepCount(s, sep, i) = k

\* str.split(sep) for a one-character separator: every occurrence splits,
\* so n separators give n + 1 tokens, empty ones included
Split(s, sep) ==
  [k \in 1..(SepCount(s, sep, Len(s)) + 1) |->
     SubSeq(s, SepIndex(s, sep, k - 1) + 1, SepIndex(s, sep, k) - 1)]

IsSurrogate(c) == c \in 55296..57343

Utf8Char(c) ==
  IF c < 128 THEN <<c>>
  ELSE IF c < 2048 THEN <<192 + (c \div 64), 128 + (c % 64)>>
  ELSE IF c < 65536 THEN <<224 + (c \div 4096), 128 + ((c \div 64) % 64), 128 + (c % 64)>>
  ELSE <<240 + (c \div 262144), 128 + ((c \div 4096) % 64), 128 + ((c \div 64) % 64), 128 + (c % 64)>>

RECURSIVE Utf8Bytes(_)
Utf8Bytes(s) == IF s = <<>> THEN <<>> ELSE Utf8Char(Head(s)) \o Utf8Bytes(Tail(s))

\* str.encode('utf-8'): a lone surrogate cannot be encoded
EncodeUtf8(s) ==
  IF \E i \in 1..Len(s) : IsSurrogate(s[i])
  THEN [exc |-> "UnicodeEncodeError", val |-> <<>>]
  ELSE [exc |-> "", val |-> Utf8Bytes(s)]

\* the base64 alphabet: value 0..63 to code point
B64Char(v) ==
  IF v < 26 THEN 65 + v
  ELSE IF v < 52 THEN 71 + v
  ELSE IF v < 62 THEN v - 4
  ELSE IF v = 62 THEN 43 ELSE 47

\* code point to value 0..63; 64 for a character outside the alphabet
B64Value(c) ==
  IF c \in 65..90 THEN c - 65
  ELSE IF c \in 97..122 THEN c - 71
  ELSE IF c \in 48..57 THEN c + 4
  ELSE IF c = 43 THEN 62
  ELSE IF c = 47 THEN 63 ELSE 64

\* base64.b64encode(data).decode('utf-8'): standard alphabet, '=' padding
RECURSIVE B64Encode(_)
B64Encode(d) ==
  IF Len(d) = 0 THEN <<>>
  ELSE IF Len(d) = 1 THEN
    <<B64Char(d[1] \div 4), B64Char((d[1] % 4) * 16), 61, 61>>
  ELSE IF Len(d) = 2 THEN
    <<B64Char(d[1] \div 4), B64Char((d[1] % 4) * 16 + (d[2] \div 16)), B64Char((d[2] % 16) * 4), 61>>
  ELSE
    <<B64Char(d[1] \div 4), B64Char((d[1] % 4) * 16 + (d[2] \div 16)),
      B64Char((d[2] % 16) * 4 + (d[3] \div 64)), B64Char(d[3] % 64)>>
      \o B64Encode(SubSeq(d, 4, Len(d)))

\* binascii.a2b_base64 in its default, non-strict mode: characters outside the
\* alphabet are skipped, the low bits of a final partial group are dropped,
\* and decoding stops at a completed padding; quad is the position in the
\* current group of four, left the bits carried over, pads the padding seen,
\* done whether a completed padding has ended the decoding
A2bStart == [quad |-> 0, left |-> 0, pads |-> 0, out |-> <<>>, done |-> FALSE]

\* one character c of the input
A2bChar(st, c) ==
  IF st.done THEN st
  ELSE IF c = 61 THEN
    IF st.quad >= 2 /\ st.quad + st.pads + 1 >= 4 THEN [st EXCEPT !.done = TRUE]
    ELSE IF st.quad >= 2 THEN [st EXCEPT !.pads = st.pads + 1] ELSE st
  ELSE IF B64Value(c) = 64 THEN st
  ELSE IF st.quad = 0 THEN
    [st EXCEPT !.quad = 1, !.left = B64Value(c), !.pads = 0]
  ELSE IF st.quad = 1 THEN
    [st EXCEPT !.quad = 2, !.left = B64Value(c) % 16, !.pads = 0,
               !.out = Append(st.out, st.left * 4 + (B64Value(c) \div 16))]
  ELSE IF st.quad = 2 THEN
    [st EXCEPT !.quad = 3, !.left = B64Value(c) % 4, !.pads = 0,
               !.out = Append(st.out, st.left * 16 + (B64Value(c) \div 4))]
  ELSE [st EXCEPT !.quad = 0, !.left = 0, !.pads = 0,
                  !.out = Append(st.out, st.left * 64 + B64Value(c))]

\* characters lo..hi of the input, the range being halved so that the
\* evaluation stays shallow
RECURSIVE A2bChars(_, _, _, _)
A2bChars(st, s, lo, hi) ==
  IF st.done \/ lo > hi THEN st
  ELSE IF lo = hi THEN A2bChar(st, s[lo])
  ELSE A2bChars(A2bChars(st, s, lo, (lo + hi) \div 2), s, (lo + hi) \div 2 + 1, hi)

\* the end of the input: a partial group without its padding is an error
A2bEnd(st) ==
  IF st.done \/ st.quad = 0 THEN [exc |-> "", val |-> st.out]
  ELSE [exc |-> "binascii.Error", val |-> <<>>]

A2bBase64(s) == A2bEnd(A2bChars(A2bStart, s, 1, Len(s)))

\* faulty variant of B64Decode: the salt token is not read, so the salt of
\* the record is lost (C1 rejects it)
B64DecodeNoSalt(s) == [exc |-> "", val |-> <<>>]

\* base64.b64decode(s) of a str: the text must be ASCII, then a2b_base64
B64Decode(s) ==
  IF \E i \in 1..Len(s) : s[i] > 127 THEN [exc |-> "ValueError", val |-> <<>>]
  ELSE A2bBase64(s)

(***************************************************************************)
(* Python values                                                           *)
(***************************************************************************)

\* a Python object as the script meets it: a str carries its code points,
\* an int its value, None nothing
PyStr(s) == [t |-> "str", v |-> s]

PyInt(n) == [t |-> "int", v |-> <<n>>]

\* the int 10^k, for the integers that exceed what PyInt carries
PyBigInt(k) == [t |-> "int", v |-> <<1, k>>]

\* the float n.0, as json.load makes it of a JSON number written with a
\* fraction or an exponent (2048.0, 1e2)
PyFloat(n) == [t |-> "float", v |-> <<n>>]

PyNone == [t |-> "none", v |-> <<>>]

\* JSON arrays and objects as json.load gives them: a list of values, and
\* a dict as the sequence of its <<key, value>> pairs in document order
PyList(items) == [t |-> "list", v |-> items]

PyObj(pairs) == [t |-> "dict", v |-> pairs]

\* truth value of an object in "if existing_hash and ..." and in
\* "if solr_health.get("available")": a str, a list or a dict is true when
\* it is not empty, an int, a float or a bool when it is not 0, None never
Truthy(x) ==
  IF x.t \in {"str", "list", "dict"} THEN x.v # <<>>
  ELSE IF x.t \in {"int", "float", "bool"} THEN x.v # <<0>>
  ELSE FALSE

\* the optional salt argument of hash_password: None, or bytes
NoSalt == [some |-> FALSE, bytes |-> <<>>]

SomeSalt(b) == [some |-> TRUE, bytes |-> b]

(***************************************************************************)
(* hash-password.py                                                        *)
(***************************************************************************)

DefaultSaltBytes == 32

\* secrets.token_bytes(length): ValueError for a negative length; the
\* system's randomness is a choice of the environment, here one of a family
\* of byte strings indexed by seed
generate_random_salt(length, seed) ==
  IF length < 0 THEN [exc |-> "ValueError", val |-> <<>>]
  ELSE [exc |-> "", val |-> [i \in 1..length |-> (seed * (7 * i + 121)) % 256]]

\* faulty variant of hash_password: one round of SHA-256 instead of two
\* (C8 rejects it)
hash_password_one_round(password, salt, seed) ==
  LET salt_bytes == IF salt.some THEN salt.bytes
                    ELSE generate_random_salt(DefaultSaltBytes, seed).val
      password_bytes == EncodeUtf8(password)
  IN IF ~salt.some /\ generate_random_salt(DefaultSaltBytes, seed).exc # ""
       THEN [exc |-> generate_random_salt(DefaultSaltBytes, seed).exc, val |-> <<>>, drawn |-> 0]
     ELSE IF password_bytes.exc # ""
       THEN [exc |-> password_bytes.exc, val |-> <<>>, drawn |-> IF salt.some THEN 0 ELSE 1]
     ELSE [exc |-> "",
           val |-> B64Encode(SHA256(salt_bytes \o password_bytes.val)) \o <<32>> \o B64Encode(salt_bytes),
           drawn |-> IF salt.some THEN 0 ELSE 1]

\* hash_password(password, salt): seed is the environment's choice for the
\* random salt, read only when no salt is supplied.  The outcome is the
\* exception raised ("" for none), the str returned and the number of salts
\* drawn from the random source.
hash_password(password, salt, seed) ==
  LET salt_bytes == IF salt.some THEN salt.bytes
                    ELSE generate_random_salt(DefaultSaltBytes, seed).val
      drawn == IF salt.some THEN 0 ELSE 1
      password_bytes == EncodeUtf8(password)
      combined == salt_bytes \o password_bytes.val
      hash1 == SHA256(combined)
      hash2 == SHA256(hash1)
      hash_b64 == B64Encode(hash2)
      salt_b64 == B64Encode(salt_bytes)
  IN IF ~salt.some /\ generate_random_salt(DefaultSaltBytes, seed).exc # ""
     THEN [exc |-> generate_random_salt(DefaultSaltBytes, seed).exc, val |-> <<>>, drawn |-> 0]
     ELSE IF password_bytes.exc # ""
     THEN [exc |-> password_bytes.exc, val |-> <<>>, drawn |-> drawn]
     ELSE [exc |-> "", val |-> hash_b64 \o <<32>> \o salt_b64, drawn |-> drawn]

\* the comparison that ends the try block of verify_password, new_hash being
\* the outcome of hash_password(password, salt=salt)
CompareHash(new_hash, existing_hash) ==
  IF new_hash.exc # "" THEN [exc |-> new_hash.exc, val |-> FALSE]
  ELSE [exc |-> "", val |-> new_hash.val = existing_hash.v]

\* the try block of verify_password: the exception it raises ("" for none)
\* and the value it returns
verify_password_try(password, existing_hash) ==
  IF existing_hash.t # "str" THEN [exc |-> "AttributeError", val |-> FALSE]
  ELSE LET parts == Split(Strip(existing_hash.v), 32) IN
    IF Len(parts) # 2 THEN [exc |-> "", val |-> FALSE]
    ELSE LET salt == B64Decode(parts[2]) IN
      IF salt.exc # "" THEN [exc |-> salt.exc, val |-> FALSE]
      ELSE CompareHash(hash_password(password, SomeSalt(salt.val), 0), existing_hash)

\* "except Exception: return False" applied to the outcome r of the try block
ExceptReturnFalse(r) == IF r.exc # "" THEN [exc |-> "", val |-> FALSE] ELSE r

\* faulty variant of verify_password: without the except clause, what the
\* try block raises reaches the caller (C3 rejects it)
verify_password_uncaught(password, existing_hash) ==
  verify_password_try(password, existing_hash)

\* verify_password(password, existing_hash)
verify_password(password, existing_hash) ==
  ExceptReturnFalse(verify_password_try(password, existing_hash))

(***************************************************************************)
(* The credential store file (security.json) as the loader meets it        *)
(***************************************************************************)

\* a mapping username -> object (a JSON object, a Python dict)
EmptyDict == [u \in {} |-> PyNone]

\* The file at the store path.  kind: "absent" (no such path), "unreadable"
\* (open fails with an OSError), "undecodable" (bytes that are not text in
\* the default encoding), "invalid_json" (text that is not JSON, the empty
\* file included), "int_too_long" (JSON text with an integer of more than
\* 4300 digits, on which json.load raises a ValueError that is no
\* JSONDecodeError), "too_deep" (JSON text nested deeper than the
\* interpreter's recursion limit: RecursionError), "json" (JSON text that
\* json.load loads).  For JSON text: top is the type of the top-level
\* value, auth of its "authentication" member, creds of that object's
\* "credentials" member ("missing", or the JSON type: "null", "object",
\* "list", "string", "bool", and for a number "int" when it is written
\* without fraction and exponent (5, 0, -3) and "float" when with one (1.5,
\* 1e2)), entries the members of the credentials object.
StoreFile(kind, top, auth, creds, entries) ==
  [kind |-> kind, top |-> top, auth |-> auth, creds |-> creds, entries |-> entries]

JsonStore(entries) == StoreFile("json", "object", "object", "object", entries)

\* load_existing_hashes(security_json_path): the exception raised ("" for
\* none), the type of the value returned and, for a dict, its content.  The
\* "credentials" member is returned as it is, whatever its type: a dict for
\* an object, "none" for null, "list" for a list, "str" for a string, "int"
\* or "float" for a number as json.load made it, "bool" for true or false.
load_existing_hashes(file) ==
  IF file.kind = "absent" THEN [exc |-> "", kind |-> "dict", map |-> EmptyDict]
  ELSE IF file.kind = "unreadable" THEN [exc |-> "", kind |-> "dict", map |-> EmptyDict]
  ELSE IF file.kind = "undecodable"
    THEN [exc |-> "UnicodeDecodeError", kind |-> "none", map |-> EmptyDict]
  ELSE IF file.kind = "invalid_json" THEN [exc |-> "", kind |-> "dict", map |-> EmptyDict]
  ELSE IF file.kind = "int_too_long"
    THEN [exc |-> "ValueError", kind |-> "none", map |-> EmptyDict]
  ELSE IF file.kind = "too_deep"
    THEN [exc |-> "RecursionError", kind |-> "none", map |-> EmptyDict]
  ELSE IF file.top # "object"
    THEN [exc |-> "AttributeError", kind |-> "none", map |-> EmptyDict]
  ELSE IF file.auth = "missing" THEN [exc |-> "", kind |-> "dict", map |-> EmptyDict]
  ELSE IF file.auth # "object"
    THEN [exc |-> "AttributeError", kind |-> "none", map |-> EmptyDict]
  ELSE IF file.creds = "missing" THEN [exc |-> "", kind |-> "dict", map |-> EmptyDict]
  ELSE IF file.creds = "null" THEN [exc |-> "", kind |-> "none", map |-> EmptyDict]
  ELSE IF file.creds = "object" THEN [exc |-> "", kind |-> "dict", map |-> file.entries]
  ELSE IF file.creds = "string" THEN [exc |-> "", kind |-> "str", map |-> EmptyDict]
  ELSE [exc |-> "", kind |-> file.creds, map |-> EmptyDict]

\* dict.get(key): None when the key is absent
DictGet(map, key) == IF key \in DOMAIN map THEN map[key] ELSE PyNone

\* faulty variant of verify_and_reuse: a record is made anew on every call,
\* the stored one never returned (C5 rejects it)
verify_and_reuse_always_new(username, password, file, seed) ==
  LET existing_hashes == load_existing_hashes(file) IN
  IF existing_hashes.exc # ""
    THEN [exc |-> existing_hashes.exc, val |-> <<>>, drawn |-> 0]
  ELSE IF existing_hashes.kind # "dict"
    THEN [exc |-> "AttributeError", val |-> <<>>, drawn |-> 0]
  ELSE hash_password(password, NoSalt, seed)

\* verify_and_reuse(username, password, security_json_path): the exception
\* raised, the str returned and the number of salts drawn
verify_and_reuse(username, password, file, seed) ==
  LET existing_hashes == load_existing_hashes(file) IN
  IF existing_hashes.exc # ""
    THEN [exc |-> existing_hashes.exc, val |-> <<>>, drawn |-> 0]
  ELSE IF existing_hashes.kind # "dict"
    THEN [exc |-> "AttributeError", val |-> <<>>, drawn |-> 0]
  ELSE LET existing_hash == DictGet(existing_hashes.map, username) IN
    IF Truthy(existing_hash) /\ verify_password(password, existing_hash).val
    THEN [exc |-> "", val |-> existing_hash.v, drawn |-> 0]
    ELSE hash_password(password, NoSalt, seed)

\* The parsed command line (argparse): each option is given or not.
\* verify = --verify PASSWORD HASH, reuse = --reuse USERNAME PASSWORD
\* SECURITY_JSON (the path names the store file), password = the positional
\* argument, salt_bytes = --salt-bytes N.
NoArgs ==
  [verify |-> FALSE, reuse |-> FALSE, positional |-> FALSE, salt_option |-> FALSE,
   username |-> "", password |-> <<>>, hash |-> <<>>, salt_bytes |-> DefaultSaltBytes]

\* what main prints and how it exits, given the outcome r of the call that
\* makes the record: an uncaught exception ends the process with a
\* traceback and status 1
PrintRecord(r) ==
  IF r.exc # "" THEN [out |-> "traceback", text |-> <<>>, code |-> 1, drawn |-> r.drawn]
  ELSE [out |-> "record", text |-> r.val, code |-> 0, drawn |-> r.drawn]

\* main(): what is printed (kind and, for a record, the text), the exit
\* status and the number of salts drawn
main(args, file, seed) ==
  IF args.verify THEN
    IF verify_password(args.password, PyStr(args.hash)).val
    THEN [out |-> "match", text |-> <<>>, code |-> 0, drawn |-> 0]
    ELSE [out |-> "no match", text |-> <<>>, code |-> 1, drawn |-> 0]
  ELSE IF args.reuse THEN
    PrintRecord(verify_and_reuse(args.username, args.password, file, seed))
  ELSE IF args.positional /\ args.password # <<>> THEN
    PrintRecord(hash_password(args.password, NoSalt, seed))
  ELSE [out |-> "usage", text |-> <<>>, code |-> 1, drawn |-> 0]

(***************************************************************************)
(* Inputs                                                                  *)
(***************************************************************************)

\* the environment's choices for a random salt are seeds 0..MaxSeed
MaxSeed == 1

\* the value given to --salt-bytes when the option is used
OtherSaltBytes == 16

Seeds == 0..MaxSeed

\* "secret123"
PwSecret == <<115, 101, 99, 114, 101, 116, 49, 50, 51>>

\* the empty password
PwEmpty == <<>>

\* U+00E9 U+20AC U+1F600: two-, three- and four-byte UTF-8 encodings
PwUnicode == <<233, 8364, 128512>>

\* a lone surrogate, U+DCFF: what an undecodable byte of the command line
\* becomes; it has no UTF-8 encoding
PwSurrogate == <<56575>>

Passwords == {PwSecret, PwEmpty, PwUnicode, PwSurrogate}

Usernames == {"alice", "bob", "carol"}

\* salts supplied by a caller of hash_password: 0, 1, 2 and 3 bytes
ExplicitSalts == {<<>>, <<0>>, <<255, 254>>, <<97, 98, 99>>}

SaltArgs == {NoSalt} \cup {SomeSalt(b) : b \in ExplicitSalts}

\* the record of "secret123" under a salt of 32 zero bytes:
\* "2Y2R+9SLHTDf2nKMijEirmQwS8C2fRbQ/mQbDKVB7ZY= AAAAAAAAAAAAAAAAAAAAAAAAAAAAAAAAAAAAAAAAAAA="
ScenarioRecord ==
  <<50, 89, 50, 82, 43, 57, 83, 76, 72, 84, 68, 102, 50, 110, 75, 77, 105, 106, 69, 105, 114, 109, 81, 119,
    83, 56, 67, 50, 102, 82, 98, 81, 47, 109, 81, 98, 68, 75, 86, 66, 55, 90, 89, 61, 32, 65, 65, 65,
    65, 65, 65, 65, 65, 65, 65, 65, 65, 65, 65, 65, 65, 65, 65, 65, 65, 65, 65, 65, 65, 65, 65, 65,
    65, 65, 65, 65, 65, 65, 65, 65, 65, 65, 65, 65, 65, 65, 65, 65, 61>>

\* credentials objects found in a store: alice's record, as printed or with
\* the newline of the line it was copied from; bob's entry is not a record;
\* in the last one alice's entry is the list [1] and bob's the object
\* {"a": 1}
Credentials ==
  { EmptyDict,
    [u \in {"alice", "bob"} |-> IF u = "alice" THEN PyStr(ScenarioRecord) ELSE PyInt(5)],
    [u \in {"alice", "bob"} |-> IF u = "alice" THEN PyStr(ScenarioRecord \o <<10>>) ELSE PyStr(<<>>)],
    [u \in {"alice", "bob"} |-> IF u = "alice" THEN PyList(<<PyInt(1)>>)
                                ELSE PyObj(<<<<"a", PyInt(1)>>>>)] }

\* the store files; in the last two the credentials hold alice's record,
\* next to the integer 10^5000 in one and under a nesting too deep in the
\* other
StoreStates ==
  { StoreFile("absent", "object", "missing", "missing", EmptyDict),
    StoreFile("unreadable", "object", "missing", "missing", EmptyDict),
    StoreFile("undecodable", "object", "missing", "missing", EmptyDict),
    StoreFile("invalid_json", "object", "missing", "missing", EmptyDict),
    StoreFile("json", "list", "missing", "missing", EmptyDict),
    StoreFile("json", "object", "missing", "missing", EmptyDict),
    StoreFile("json", "object", "string", "missing", EmptyDict),
    StoreFile("json", "object", "object", "missing", EmptyDict),
    StoreFile("json", "object", "object", "null", EmptyDict),
    StoreFile("json", "object", "object", "list", EmptyDict),
    StoreFile("json", "object", "object", "string", EmptyDict),
    StoreFile("json", "object", "object", "float", EmptyDict),
    StoreFile("int_too_long", "object", "object", "object",
              [u \in {"alice", "bob"} |-> IF u = "alice" THEN PyStr(ScenarioRecord)
                                          ELSE PyBigInt(5000)]),
    StoreFile("too_deep", "object", "object", "object",
              [u \in {"alice"} |-> PyStr(ScenarioRecord)]) }
  \cup {JsonStore(c) : c \in Credentials}

\* the first and the last n characters of a text
Prefix(s, n) == SubSeq(s, 1, n)

\* a salt token that decodes to the same bytes without being the canonical
\* encoding: the unused low bits of its last character set
NonCanonical(s) ==
  IF Len(s) >= 2 /\ s[Len(s)] = 61 /\ s[Len(s) - 1] # 61
    THEN Prefix(s, Len(s) - 2) \o <<B64Char(B64Value(s[Len(s) - 1]) + 1), 61>>
  ELSE IF Len(s) >= 3 /\ s[Len(s) - 1] = 61
    THEN Prefix(s, Len(s) - 3) \o <<B64Char(B64Value(s[Len(s) - 2]) + 1), 61, 61>>
  ELSE s \o <<10>>

\* record arguments tried on verify_password, made from a record r that
\* hash_password returned
Variants(r) ==
  LET parts == Split(r, 32)
      h == parts[1]
      s == parts[2]
  IN { PyStr(r), PyStr(<<32>> \o r), PyStr(r \o <<10>>), PyStr(r \o <<32>>),
       PyStr(h \o <<32, 32>> \o s), PyStr(h \o <<9>> \o s), PyStr(s \o <<32>> \o h),
       PyStr(h), PyStr(h \o <<32>> \o NonCanonical(s)), PyStr(h \o <<32>> \o s \o <<61>>),
       PyStr(h \o <<32, 10>> \o s), PyStr(h \o <<32>> \o Prefix(s, Len(s) - 1)),
       PyStr(h \o <<32, 233>>), PyStr(<<B64Char((B64Value(h[1]) + 1) % 64)>> \o Tail(h) \o <<32>> \o s),
       PyStr(<<>>), PyInt(5), PyNone }

\* the (password, record) pairs tried after hash_password(password) = r
VerifyCases(password, r) ==
  {<<password, v>> : v \in Variants(r)}
    \cup {<<p, PyStr(r)>> : p \in {PwSecret, PwUnicode, PwSurrogate}}

\* command lines
CommandLines ==
  {NoArgs, [NoArgs EXCEPT !.salt_option = TRUE, !.salt_bytes = OtherSaltBytes]}
    \cup {[NoArgs EXCEPT !.positional = TRUE, !.password = p] : p \in Passwords}
    \cup {[NoArgs EXCEPT !.positional = TRUE, !.password = p,
                         !.salt_option = TRUE, !.salt_bytes = OtherSaltBytes] : p \in Passwords}
    \cup {[NoArgs EXCEPT !.verify = TRUE, !.password = p, !.hash = h] :
            p \in {PwSecret, PwEmpty}, h \in {ScenarioRecord, ScenarioRecord \o <<10>>, <<>>}}
    \cup {[NoArgs EXCEPT !.reuse = TRUE, !.username = u, !.password = p] :
            u \in {"alice", "carol"}, p \in {PwSecret, PwEmpty, PwSurrogate}}

(***************************************************************************)
(* State: the store file, and the last two calls with their outcomes;      *)
(* Solr as the health aggregator sees it, and the request being served;    *)
(* the dashboard file, the last run of a dashboard script and the file     *)
(* before that run                                                         *)
(***************************************************************************)

VARIABLES store, call, prev

VARIABLES solr, req

VARIABLES board, run, before

vars == <<store, call, prev, solr, req, board, run, before>>

PyBool(b) == [t |-> "bool", v |-> IF b THEN <<1>> ELSE <<0>>]

PyDict == [t |-> "dict", v |-> <<>>]

\* A call: the operation, its arguments (username, password, the record
\* argument arg, the salt argument, the command line args, the seed the
\* environment chose), and its outcome (the exception raised, the value
\* returned, for a dict its content, what main printed and its exit status,
\* the number of random salts drawn).
NoCall ==
  [op |-> "none", username |-> "", password |-> <<>>, arg |-> PyNone, salt |-> NoSalt,
   args |-> NoArgs, seed |-> 0, exc |-> "", ret |-> PyNone, map |-> EmptyDict,
   out |-> "", code |-> 0, drawn |-> 0]

\* the call record of a function call with outcome r
HashOutcome(c, r) ==
  [c EXCEPT !.exc = r.exc, !.ret = IF r.exc = "" THEN PyStr(r.val) ELSE PyNone,
            !.drawn = r.drawn]

VerifyOutcome(c, r) ==
  [c EXCEPT !.exc = r.exc, !.ret = IF r.exc = "" THEN PyBool(r.val) ELSE PyNone]

\* of a value returned that is no dict, the type is kept
LoadOutcome(c, r) ==
  [c EXCEPT !.exc = r.exc,
            !.ret = IF r.exc # "" \/ r.kind = "none" THEN PyNone
                    ELSE IF r.kind = "dict" THEN PyDict
                    ELSE [t |-> r.kind, v |-> <<>>],
            !.map = r.map]

MainOutcome(c, r) ==
  [c EXCEPT !.out = r.out, !.ret = PyStr(r.text), !.code = r.code, !.drawn = r.drawn]

HashCall(password, salt, seed) ==
  HashOutcome([NoCall EXCEPT !.op = "hash", !.password = password, !.salt = salt, !.seed = seed],
              hash_password(password, salt, seed))

VerifyCall(password, existing_hash) ==
  VerifyOutcome([NoCall EXCEPT !.op = "verify", !.password = password, !.arg = existing_hash],
                verify_password(password, existing_hash))

LoadCall(file) == LoadOutcome([NoCall EXCEPT !.op = "load"], load_existing_hashes(file))

ReuseCall(username, password, file, seed) ==
  HashOutcome([NoCall EXCEPT !.op = "reuse", !.username = username, !.password = password,
                             !.seed = seed],
              verify_and_reuse(username, password, file, seed))

MainCall(args, file, seed) ==
  MainOutcome([NoCall EXCEPT !.op = "main", !.args = args, !.seed = seed], main(args, file, seed))

(***************************************************************************)
(* scripts/health-api.py: the health aggregator                            *)
(***************************************************************************)
\* d.get(key, default) on the dict with these pairs
ObjGet(pairs, key, default) ==
  IF \E i \in 1..Len(pairs) : pairs[i][1] = key
  THEN pairs[CHOOSE i \in 1..Len(pairs) : pairs[i][1] = key][2]
  ELSE default

\* type(x).__name__: list, str, int, float, bool, NoneType, dict
TypeName(x) ==
  IF x.t = "list" THEN <<108, 105, 115, 116>>
  ELSE IF x.t = "str" THEN <<115, 116, 114>>
  ELSE IF x.t = "int" THEN <<105, 110, 116>>
  ELSE IF x.t = "float" THEN <<102, 108, 111, 97, 116>>
  ELSE IF x.t = "bool" THEN <<98, 111, 111, 108>>
  ELSE IF x.t = "none" THEN <<78, 111, 110, 101, 84, 121, 112, 101>>
  ELSE <<100, 105, 99, 116>>

\* str(e) of the AttributeError of x.get / x.items on a value that is no
\* dict: "'list' object has no attribute 'get'"
AttributeErrorText(x, attr) ==
  <<39>> \o TypeName(x)
    \o <<39, 32, 111, 98, 106, 101, 99, 116, 32, 104, 97, 115, 32, 110, 111, 32, 97, 116,
         116, 114, 105, 98, 117, 116, 101, 32, 39>>
    \o (IF attr = "items" THEN <<105, 116, 101, 109, 115>> ELSE <<103, 101, 116>>)
    \o <<39>>

\* str(e) of the TypeError of x / 1024 (op "/") and x // 1000 (op "//") on
\* a value that is no number: "unsupported operand type(s) for /: 'str' and
\* 'int'"
TypeErrorText(x, op) ==
  <<117, 110, 115, 117, 112, 112, 111, 114, 116, 101, 100, 32, 111, 112, 101, 114, 97, 110,
    100, 32, 116, 121, 112, 101, 40, 115, 41, 32, 102, 111, 114, 32>>
    \o (IF op = "//" THEN <<47, 47>> ELSE <<47>>)
    \o <<58, 32, 39>> \o TypeName(x) \o <<39, 32, 97, 110, 100, 32, 39, 105, 110, 116, 39>>

\* What one request to Solr comes to.  kind: "unreachable" (urlopen raises
\* URLError: connection refused, unknown host, an HTTP error status),
\* "timeout" (the socket times out while the response is awaited or read:
\* an OSError that is no URLError), "not_json" (the body is no JSON
\* document), "int_too_long" (a JSON document with an integer of more than
\* 4300 digits: json.loads raises ValueError), "too_deep" (a JSON document
\* nested deeper than the recursion limit: RecursionError), "json" (the body
\* is the JSON value data).  text is str(e) of the exception.
Upstream(kind, text, data) == [kind |-> kind, text |-> text, data |-> data]

\* create_auth_request(url) followed by json.loads(response.read())
create_auth_request(resp) ==
  IF resp.kind = "unreachable" THEN [exc |-> "URLError", text |-> resp.text, val |-> PyNone]
  ELSE IF resp.kind = "timeout" THEN [exc |-> "TimeoutError", text |-> resp.text, val |-> PyNone]
  ELSE IF resp.kind = "not_json"
  THEN [exc |-> "JSONDecodeError", text |-> resp.text, val |-> PyNone]
  ELSE IF resp.kind = "int_too_long"
  THEN [exc |-> "ValueError", text |-> resp.text, val |-> PyNone]
  ELSE IF resp.kind = "too_deep"
  THEN [exc |-> "RecursionError", text |-> resp.text, val |-> PyNone]
  ELSE [exc |-> "", text |-> <<>>, val |-> resp.data]

Raise(exc, text) == [exc |-> exc, text |-> text, val |-> EmptyDict]

\* x / y, y being a number (the int 1024 when x is none): the exception
\* the division raises, "" for none.  TypeError unless x is a number (an
\* int, a float or a bool).  With a float among the two, an int from 10^309
\* on among them cannot be converted ("int too large to convert to float"),
\* and a divisor 0 gives "float division by zero".  Of two ints (a bool
\* being one), a divisor 0 gives "division by zero", and the quotient
\* must not exceed the largest float, about 1.797 * 10^308 ("integer
\* division result too large for a float"): 10^k / 10^j does when k - j >=
\* 309, and 10^k / n when k >= 318, or k = 308 + d and |n| is at most 5, 55,
\* 556, ... = floor(10^d / 1.797...).
TrueDivide(x, y) ==
  IF x.t \notin {"int", "float", "bool"} THEN Raise("TypeError", TypeErrorText(x, "/"))
  ELSE IF x.t = "float" \/ y.t = "float"
  THEN IF \/ (x.t = "int" /\ Len(x.v) = 2 /\ x.v[2] >= 309)
          \/ (y.t = "int" /\ Len(y.v) = 2 /\ y.v[2] >= 309)
       THEN Raise("OverflowError",
                  <<105, 110, 116, 32, 116, 111, 111, 32, 108, 97, 114, 103, 101, 32, 116,
                    111, 32, 99, 111, 110, 118, 101, 114, 116, 32, 116, 111, 32, 102, 108,
                    111, 97, 116>>)
       ELSE IF y.v = <<0>>
       THEN Raise("ZeroDivisionError",
                  <<102, 108, 111, 97, 116, 32, 100, 105, 118, 105, 115, 105, 111, 110, 32,
                    98, 121, 32, 122, 101, 114, 111>>)
       ELSE Raise("", <<>>)
  ELSE IF y.v = <<0>>
  THEN Raise("ZeroDivisionError", <<100, 105, 118, 105, 115, 105, 111, 110, 32, 98, 121, 32, 122, 101, 114, 111>>)
  ELSE IF /\ Len(x.v) = 2
          /\ IF Len(y.v) = 2 THEN x.v[2] - y.v[2] >= 309
             ELSE \/ x.v[2] >= 318
                  \/ /\ x.v[2] >= 309
                     /\ (IF y.v[1] < 0 THEN 0 - y.v[1] ELSE y.v[1])
                          <= <<5, 55, 556, 5562, 55626, 556268, 5562684, 55626846,
                               556268464>>[x.v[2] - 308]
  THEN Raise("OverflowError",
             <<105, 110, 116, 101, 103, 101, 114, 32, 100, 105, 118, 105, 115, 105, 111,
               110, 32, 114, 101, 115, 117, 108, 116, 32, 116, 111, 111, 32, 108, 97, 114,
               103, 101, 32, 102, 111, 114, 32, 97, 32, 102, 108, 111, 97, 116>>)
  ELSE Raise("", <<>>)

\* the try block of check_solr, r being what the request came to
check_solr_try(r) ==
  IF r.exc # "" THEN Raise(r.exc, r.text)
  ELSE IF r.val.t # "dict" THEN Raise("AttributeError", AttributeErrorText(r.val, "get"))
  ELSE IF ObjGet(r.val.v, "responseHeader", PyObj(<<>>)).t # "dict"
  THEN Raise("AttributeError",
             AttributeErrorText(ObjGet(r.val.v, "responseHeader", PyObj(<<>>)), "get"))
  ELSE [exc |-> "", text |-> <<>>,
        val |-> [available |-> PyBool(TRUE),
                 status |-> ObjGet(r.val.v, "status", PyNone),
                 response_time_ms |->
                   ObjGet(ObjGet(r.val.v, "responseHeader", PyObj(<<>>)).v, "QTime", PyInt(0))]]

\* check_solr, resp being what the ping request comes to: the try block and
\* the two except clauses, the second one putting "Unexpected error: "
\* before str(e)
check_solr(resp) ==
  LET r == check_solr_try(create_auth_request(resp)) IN
    IF r.exc = "" THEN r.val
    ELSE IF r.exc = "URLError" THEN [available |-> PyBool(FALSE), error |-> PyStr(r.text)]
    ELSE [available |-> PyBool(FALSE),
          error |-> PyStr(<<85, 110, 101, 120, 112, 101, 99, 116, 101, 100, 32, 101, 114, 114,
                            111, 114, 58, 32>> \o r.text)]

\* The loop of get_cores from item i on, acc.val the list so far: an entry
\* is appended for a core with a non-empty name (of its fields the name and
\* num_docs are kept here; size_mb and last_modified are read from the same
\* "index" object, and sizeInBytes / 1024 raises TypeError unless
\* sizeInBytes is a number, and OverflowError when it is an int from 10^312
\* on)
RECURSIVE get_cores_loop(_, _, _)
get_cores_loop(acc, items, i) ==
  IF i > Len(items) \/ acc.exc # "" THEN acc
  ELSE IF items[i][1] = "" THEN get_cores_loop(acc, items, i + 1)
  ELSE IF items[i][2].t # "dict"
  THEN Raise("AttributeError", AttributeErrorText(items[i][2], "get"))
  ELSE IF ObjGet(items[i][2].v, "index", PyObj(<<>>)).t # "dict"
  THEN Raise("AttributeError",
             AttributeErrorText(ObjGet(items[i][2].v, "index", PyObj(<<>>)), "get"))
  ELSE IF TrueDivide(ObjGet(ObjGet(items[i][2].v, "index", PyObj(<<>>)).v,
                            "sizeInBytes", PyInt(0)), PyInt(1024)).exc # ""
  THEN TrueDivide(ObjGet(ObjGet(items[i][2].v, "index", PyObj(<<>>)).v, "sizeInBytes", PyInt(0)),
                  PyInt(1024))
  ELSE get_cores_loop(
         [acc EXCEPT !.val =
            Append(@, [name |-> items[i][1],
                       num_docs |-> ObjGet(ObjGet(items[i][2].v, "index", PyObj(<<>>)).v,
                                           "numDocs", PyInt(0))])],
         items, i + 1)

\* the try block of get_cores, r being what the request came to
get_cores_try(r) ==
  IF r.exc # "" THEN Raise(r.exc, r.text)
  ELSE IF r.val.t # "dict" THEN Raise("AttributeError", AttributeErrorText(r.val, "get"))
  ELSE IF ObjGet(r.val.v, "status", PyObj(<<>>)).t # "dict"
  THEN Raise("AttributeError", AttributeErrorText(ObjGet(r.val.v, "status", PyObj(<<>>)), "items"))
  ELSE get_cores_loop([exc |-> "", text |-> <<>>, val |-> <<>>],
                      ObjGet(r.val.v, "status", PyObj(<<>>)).v, 1)

\* get_cores, resp being what the core-status request comes to: the try
\* block, and except Exception as e: return [{"error": str(e)}]
get_cores(resp) ==
  LET r == get_cores_try(create_auth_request(resp)) IN
    IF r.exc = "" THEN r.val ELSE <<[error |-> PyStr(r.text)]>>

\* "unknown"
\* The try block of get_system_info, r being what the request came to: the
\* first of the reads of the document that raises, in the order in which
\* they are made, or the result.  Of the fields of the result the two
\* versions are kept here; the memory figures and the uptime are computed
\* from numbers (int, float or bool), and computing them raises TypeError
\* on anything else and OverflowError on too large an int; usage_percent
\* divides used by max when max is true, which can overflow as well.  The
\* default of the two versions is "unknown".
get_system_info_try(r) ==
  IF r.exc # "" THEN Raise(r.exc, r.text)
  ELSE IF r.val.t # "dict" THEN Raise("AttributeError", AttributeErrorText(r.val, "get"))
  ELSE
    LET data == r.val.v
        jvm == ObjGet(data, "jvm", PyObj(<<>>))
        jvm_memory == ObjGet(jvm.v, "memory", PyObj(<<>>))
        memory == ObjGet(jvm_memory.v, "raw", PyObj(<<>>))
        lucene == ObjGet(data, "lucene", PyObj(<<>>))
        used == ObjGet(memory.v, "used", PyInt(0))
        total == ObjGet(memory.v, "total", PyInt(0))
        max == ObjGet(memory.v, "max", PyInt(0))
        jmx == ObjGet(jvm.v, "jmx", PyObj(<<>>))
        upTimeMS == ObjGet(jmx.v, "upTimeMS", PyInt(0))
    IN IF jvm.t # "dict" THEN Raise("AttributeError", AttributeErrorText(jvm, "get"))
       ELSE IF jvm_memory.t # "dict"
       THEN Raise("AttributeError", AttributeErrorText(jvm_memory, "get"))
       ELSE IF lucene.t # "dict" THEN Raise("AttributeError", AttributeErrorText(lucene, "get"))
       ELSE IF memory.t # "dict" THEN Raise("AttributeError", AttributeErrorText(memory, "get"))
       ELSE IF TrueDivide(used, PyInt(1024)).exc # "" THEN TrueDivide(used, PyInt(1024))
       ELSE IF TrueDivide(total, PyInt(1024)).exc # "" THEN TrueDivide(total, PyInt(1024))
       ELSE IF TrueDivide(max, PyInt(1024)).exc # "" THEN TrueDivide(max, PyInt(1024))
       ELSE IF Truthy(max) /\ TrueDivide(used, max).exc # "" THEN TrueDivide(used, max)
       ELSE IF jmx.t # "dict" THEN Raise("AttributeError", AttributeErrorText(jmx, "get"))
       ELSE IF upTimeMS.t \notin {"int", "float", "bool"}
       THEN Raise("TypeError", TypeErrorText(upTimeMS, "//"))
       ELSE [exc |-> "", text |-> <<>>,
             val |-> [solr_version |->
                        ObjGet(lucene.v, "solr-spec-version",
                               PyStr(<<117, 110, 107, 110, 111, 119, 110>>)),
                      jvm_version |->
                        ObjGet(jvm.v, "version", PyStr(<<117, 110, 107, 110, 111, 119, 110>>))]]

\* get_system_info, resp being what the system-info request comes to: the
\* try block, and except Exception as e: return {"error": str(e)}
get_system_info(resp) ==
  LET r == get_system_info_try(create_auth_request(resp)) IN
    IF r.exc = "" THEN r.val ELSE [error |-> PyStr(r.text)]

\* health_data as handle_health first makes it (the constant "customer" and
\* "version" entries are left out)
HealthData ==
  [status |-> "unknown", solr |-> EmptyDict, cores |-> <<>>, system |-> EmptyDict,
   errors |-> <<>>]

\* "Solr is not available"
SolrNotAvailable ==
  PyStr(<<83, 111, 108, 114, 32, 105, 115, 32, 110, 111, 116, 32, 97, 118, 97, 105, 108, 97,
          98, 108, 101>>)

\* handle_health from the return of check_solr to the branch taken on
\* solr_health.get("available")
AfterCheckSolr(health_data, solr_health) ==
  IF Truthy(DictGet(solr_health, "available"))
  THEN [health_data EXCEPT !.solr = solr_health, !.status = "healthy"]
  ELSE [health_data EXCEPT !.solr = solr_health, !.status = "unhealthy",
                           !.errors = Append(@, SolrNotAvailable)]

\* faulty variant of CoresWanted: the cores and the system information are
\* asked for whatever the ping check reported (C15 rejects it)
CoresWantedAlways(health_data) == TRUE

\* whether handle_health goes on to get_cores and get_system_info
CoresWanted(health_data) == Truthy(DictGet(health_data.solr, "available"))

\* faulty variant of StatusCode: 200 whatever the status (C11 rejects it)
StatusCodeAlways200(health_data) == 200

\* status_code = 200 if health_data["status"] == "healthy" else 503
StatusCode(health_data) == IF health_data.status = "healthy" THEN 200 ELSE 503

\* A request in the single-threaded server: where its handler stands (pc),
\* the path asked for, the requests the handler has sent to Solr so far,
\* health_data, and the response once sent (status code and document).
NoRequest ==
  [pc |-> "idle", path |-> "", issued |-> <<>>, health_data |-> HealthData, code |-> 0,
   body |-> [kind |-> "none", doc |-> HealthData]]

\* do_GET up to the first request to Solr: /ping (handle_ping, the
\* document being {"status": "ok"}) and unknown paths are answered at once
do_GET(path) ==
  IF path = "/health" THEN [NoRequest EXCEPT !.pc = "check_solr", !.path = path]
  ELSE IF path = "/ping"
  THEN [NoRequest EXCEPT !.pc = "sent", !.path = path, !.code = 200,
                         !.body = [kind |-> "ping", doc |-> [status |-> "ok"]]]
  ELSE [NoRequest EXCEPT !.pc = "sent", !.path = path, !.code = 404,
                         !.body = [kind |-> "error", doc |-> [status |-> "Not Found"]]]

\* "<urlopen error [Errno 111] Connection refused>"
TextRefused ==
  <<60, 117, 114, 108, 111, 112, 101, 110, 32, 101, 114, 114, 111, 114, 32, 91, 69, 114, 114,
    110, 111, 32, 49, 49, 49, 93, 32, 67, 111, 110, 110, 101, 99, 116, 105, 111, 110, 32, 114,
    101, 102, 117, 115, 101, 100, 62>>

\* the ways a request fails before a JSON document is at hand: connection
\* refused, a socket timeout ("timed out"), a body that is no JSON
\* ("Expecting value: line 1 column 1 (char 0)")
Failures ==
  {Upstream("unreachable", TextRefused, PyNone),
   Upstream("timeout", <<116, 105, 109, 101, 100, 32, 111, 117, 116>>, PyNone),
   Upstream("not_json",
            <<69, 120, 112, 101, 99, 116, 105, 110, 103, 32, 118, 97, 108, 117, 101, 58, 32,
              108, 105, 110, 101, 32, 49, 32, 99, 111, 108, 117, 109, 110, 32, 49, 32, 40, 99,
              104, 97, 114, 32, 48, 41>>, PyNone)}

Json(data) == Upstream("json", <<>>, data)

\* {"index": {"numDocs": n, "sizeInBytes": 2048}}
CoreData(n) == PyObj(<<<<"index", PyObj(<<<<"numDocs", PyInt(n)>>, <<"sizeInBytes", PyInt(2048)>>>>)>>>>)

\* The answers of Solr.  To /solr/admin/ping: {"responseHeader": {"QTime":
\* 3}, "status": "OK"}, {}, [], {"responseHeader": true} and a document
\* with an integer of 5001 digits ("Exceeds the limit (4300 digits) for
\* integer string conversion: value has 5001 digits; use
\* sys.set_int_max_str_digits() to increase the limit").  To
\* /solr/admin/cores?action=STATUS: no core, two cores after an entry with
\* the empty name, a core whose data is no object, a status that is no
\* object, a document that is no object, a core whose sizeInBytes is true
\* before one whose sizeInBytes is 2048.0 and one whose sizeInBytes is
\* 10^311, a core whose sizeInBytes is 10^312,
\* a core whose sizeInBytes is the string "12".  To /solr/admin/info/system:
\* both versions, an empty object, a "jvm" that is no object,
\* {"jvm": {"memory": {"raw": {"used": "1", "max": 4}}}},
\* {"jvm": {"version": "17", "memory": {"raw": {"used": true}},
\* "jmx": {"upTimeMS": null}}},
\* {"jvm": {"memory": {"raw": {"used": 5, "max": 10^400}}}} and
\* {"jvm": {"memory": {"raw": {"used": 10^311, "max": 1}}}}.
Responses ==
  [ping |->
      Failures \cup
      {Json(PyObj(<<<<"responseHeader", PyObj(<<<<"QTime", PyInt(3)>>>>)>>,
                    <<"status", PyStr(<<79, 75>>)>>>>)),
       Json(PyObj(<<>>)), Json(PyList(<<>>)), Json(PyObj(<<<<"responseHeader", PyBool(TRUE)>>>>)),
       Upstream("int_too_long",
                <<69, 120, 99, 101, 101, 100, 115, 32, 116, 104, 101, 32, 108, 105, 109,
                  105, 116, 32, 40, 52, 51, 48, 48, 32, 100, 105, 103, 105, 116, 115, 41, 32,
                  102, 111, 114, 32, 105, 110, 116, 101, 103, 101, 114, 32, 115, 116, 114,
                  105, 110, 103, 32, 99, 111, 110, 118, 101, 114, 115, 105, 111, 110, 58, 32,
                  118, 97, 108, 117, 101, 32, 104, 97, 115, 32, 53, 48, 48, 49, 32, 100, 105,
                  103, 105, 116, 115, 59, 32, 117, 115, 101, 32, 115, 121, 115, 46, 115, 101,
                  116, 95, 105, 110, 116, 95, 109, 97, 120, 95, 115, 116, 114, 95, 100, 105,
                  103, 105, 116, 115, 40, 41, 32, 116, 111, 32, 105, 110, 99, 114, 101, 97,
                  115, 101, 32, 116, 104, 101, 32, 108, 105, 109, 105, 116>>,
                PyNone)},
   cores |->
      Failures \cup
      {Json(PyObj(<<>>)),
       Json(PyObj(<<<<"status", PyObj(<<<<"", PyNone>>, <<"core1", CoreData(7)>>,
                                        <<"core2", PyObj(<<>>)>>>>)>>>>)),
       Json(PyObj(<<<<"status", PyObj(<<<<"core1", CoreData(7)>>, <<"core2", PyNone>>>>)>>>>)),
       Json(PyObj(<<<<"status", PyList(<<>>)>>>>)),
       Json(PyList(<<>>)),
       Json(PyObj(<<<<"status",
                      PyObj(<<<<"core1",
                                PyObj(<<<<"index",
                                          PyObj(<<<<"sizeInBytes", PyBool(TRUE)>>>>)>>>>)>>,
                              <<"core2",
                                PyObj(<<<<"index",
                                          PyObj(<<<<"sizeInBytes",
                                                    PyFloat(2048)>>>>)>>>>)>>,
                              <<"core3",
                                PyObj(<<<<"index",
                                          PyObj(<<<<"sizeInBytes",
                                                    PyBigInt(311)>>>>)>>>>)>>>>)>>>>)),
       Json(PyObj(<<<<"status",
                      PyObj(<<<<"core1",
                                PyObj(<<<<"index",
                                          PyObj(<<<<"numDocs", PyInt(7)>>,
                                                  <<"sizeInBytes",
                                                    PyBigInt(312)>>>>)>>>>)>>>>)>>>>)),
       Json(PyObj(<<<<"status",
                      PyObj(<<<<"core1",
                                PyObj(<<<<"index",
                                          PyObj(<<<<"sizeInBytes",
                                                    PyStr(<<49, 50>>)>>>>)>>>>)>>>>)>>>>))},
   system |->
      Failures \cup
      {Json(PyObj(<<<<"lucene", PyObj(<<<<"solr-spec-version", PyStr(<<57, 46, 52, 46, 48>>)>>>>)>>,
                    <<"jvm", PyObj(<<<<"version", PyStr(<<49, 55, 46, 48, 46, 57>>)>>>>)>>>>)),
       Json(PyObj(<<>>)),
       Json(PyObj(<<<<"jvm", PyStr(<<49, 55>>)>>>>)),
       Json(PyObj(<<<<"jvm",
                      PyObj(<<<<"memory",
                                PyObj(<<<<"raw",
                                          PyObj(<<<<"used", PyStr(<<49>>)>>,
                                                  <<"max", PyInt(4)>>>>)>>>>)>>>>)>>>>)),
       Json(PyObj(<<<<"jvm",
                      PyObj(<<<<"version", PyStr(<<49, 55>>)>>,
                              <<"memory",
                                PyObj(<<<<"raw", PyObj(<<<<"used", PyBool(TRUE)>>>>)>>>>)>>,
                              <<"jmx", PyObj(<<<<"upTimeMS", PyNone>>>>)>>>>)>>>>)),
       Json(PyObj(<<<<"jvm",
                      PyObj(<<<<"memory",
                                PyObj(<<<<"raw",
                                          PyObj(<<<<"used", PyInt(5)>>,
                                                  <<"max", PyBigInt(400)>>>>)>>>>)>>>>)>>>>)),
       Json(PyObj(<<<<"jvm",
                      PyObj(<<<<"memory",
                                PyObj(<<<<"raw",
                                          PyObj(<<<<"used", PyBigInt(311)>>,
                                                  <<"max", PyInt(1)>>>>)>>>>)>>>>)>>>>))}]

\* what Solr answers on its three endpoints
SolrStates == [ping : Responses.ping, cores : Responses.cores, system : Responses.system]

(***************************************************************************)
(* scripts/add-query-performance-dashboard.py and                          *)
(* scripts/add-grafana-templating.py: the dashboard scripts                *)
(***************************************************************************)
\* A JSON object of the dashboard document is a record with the set of the
\* keys it has (keys); the field of a key it lacks holds a filler.
\* obj.get(key, default)
Get(obj, key, default) == IF key \in obj.keys THEN obj[key] ELSE default

\* max(list, default=default)
MaxOf(list, default) ==
  IF list = <<>> THEN default
  ELSE CHOOSE m \in {list[i] : i \in 1..Len(list)} : \A i \in 1..Len(list) : list[i] <= m

\* A panel: id, type, title, gridPos and the "expr" of each of its targets
\* (a panel without the key "targets" has none).
Panel(id, type, title, h, w, x, y, exprs) ==
  [keys |-> {"id", "gridPos", "title", "type"} \cup (IF type = "row" THEN {} ELSE {"targets"}),
   id |-> id, type |-> type, title |-> title,
   gridPos |-> [keys |-> {"h", "w", "x", "y"}, h |-> h, w |-> w, x |-> x, y |-> y],
   exprs |-> exprs]

NoGridPos == [keys |-> {}, h |-> 0, w |-> 0, x |-> 0, y |-> 0]

\* The queries ("expr") of the targets of the five panels with targets.
\* panel_latency:
\* histogram_quantile(0.50, rate(solr_metrics_core_query_time_bucket{core=~"$
\* core",instance=~"$instance"}[5m]))
\* histogram_quantile(0.95, rate(solr_metrics_core_query_time_bucket{core=~"$
\* core",instance=~"$instance"}[5m]))
\* histogram_quantile(0.99, rate(solr_metrics_core_query_time_bucket{core=~"$
\* core",instance=~"$instance"}[5m]))
\* panel_slow:
\* sum(rate(solr_metrics_core_query_time_bucket{core=~"$core",instance=~"$ins
\* tance",le="1000"}[5m])) by (core)
\* panel_rate:
\* sum(rate(solr_metrics_core_query_requests_total{core=~"$core",instance=~"$
\* instance"}[5m])) by (handler)
\* panel_cache:
\* 100 * (rate(solr_metrics_core_query_result_cache_hits_total{core=~"$core",
\* instance=~"$instance"}[5m]) / (rate(solr_metrics_core_query_result_cache_h
\* its_total{core=~"$core",instance=~"$instance"}[5m]) + rate(solr_metrics_co
\* re_query_result_cache_misses_total{core=~"$core",instance=~"$instance"}[5m
\* ])))
\* panel_trend:
\* rate(solr_metrics_core_query_time_sum{core=~"$core",instance=~"$instance"}
\* [5m]) / rate(solr_metrics_core_query_requests_total{core=~"$core",instance
\* =~"$instance"}[5m])
NewExprs ==
  [latency |->
    <<<<104, 105, 115, 116, 111, 103, 114, 97, 109, 95, 113, 117, 97, 110, 116, 105, 108, 101,
        40, 48, 46, 53, 48, 44, 32, 114, 97, 116, 101, 40, 115, 111, 108, 114, 95, 109, 101,
        116, 114, 105, 99, 115, 95, 99, 111, 114, 101, 95, 113, 117, 101, 114, 121, 95, 116,
        105, 109, 101, 95, 98, 117, 99, 107, 101, 116, 123, 99, 111, 114, 101, 61, 126, 34,
        36, 99, 111, 114, 101, 34, 44, 105, 110, 115, 116, 97, 110, 99, 101, 61, 126, 34, 36,
        105, 110, 115, 116, 97, 110, 99, 101, 34, 125, 91, 53, 109, 93, 41, 41>>,
      <<104, 105, 115, 116, 111, 103, 114, 97, 109, 95, 113, 117, 97, 110, 116, 105, 108, 101,
        40, 48, 46, 57, 53, 44, 32, 114, 97, 116, 101, 40, 115, 111, 108, 114, 95, 109, 101,
        116, 114, 105, 99, 115, 95, 99, 111, 114, 101, 95, 113, 117, 101, 114, 121, 95, 116,
        105, 109, 101, 95, 98, 117, 99, 107, 101, 116, 123, 99, 111, 114, 101, 61, 126, 34,
        36, 99, 111, 114, 101, 34, 44, 105, 110, 115, 116, 97, 110, 99, 101, 61, 126, 34, 36,
        105, 110, 115, 116, 97, 110, 99, 101, 34, 125, 91, 53, 109, 93, 41, 41>>,
      <<104, 105, 115, 116, 111, 103, 114, 97, 109, 95, 113, 117, 97, 110, 116, 105, 108, 101,
        40, 48, 46, 57, 57, 44, 32, 114, 97, 116, 101, 40, 115, 111, 108, 114, 95, 109, 101,
        116, 114, 105, 99, 115, 95, 99, 111, 114, 101, 95, 113, 117, 101, 114, 121, 95, 116,
        105, 109, 101, 95, 98, 117, 99, 107, 101, 116, 123, 99, 111, 114, 101, 61, 126, 34,
        36, 99, 111, 114, 101, 34, 44, 105, 110, 115, 116, 97, 110, 99, 101, 61, 126, 34, 36,
        105, 110, 115, 116, 97, 110, 99, 101, 34, 125, 91, 53, 109, 93, 41, 41>>>>,
   slow |->
    <<<<115, 117, 109, 40, 114, 97, 116, 101, 40, 115, 111, 108, 114, 95, 109, 101, 116, 114,
        105, 99, 115, 95, 99, 111, 114, 101, 95, 113, 117, 101, 114, 121, 95, 116, 105, 109,
        101, 95, 98, 117, 99, 107, 101, 116, 123, 99, 111, 114, 101, 61, 126, 34, 36, 99, 111,
        114, 101, 34, 44, 105, 110, 115, 116, 97, 110, 99, 101, 61, 126, 34, 36, 105, 110,
        115, 116, 97, 110, 99, 101, 34, 44, 108, 101, 61, 34, 49, 48, 48, 48, 34, 125, 91, 53,
        109, 93, 41, 41, 32, 98, 121, 32, 40, 99, 111, 114, 101, 41>>>>,
   rate |->
    <<<<115, 117, 109, 40, 114, 97, 116, 101, 40, 115, 111, 108, 114, 95, 109, 101, 116, 114,
        105, 99, 115, 95, 99, 111, 114, 101, 95, 113, 117, 101, 114, 121, 95, 114, 101, 113,
        117, 101, 115, 116, 115, 95, 116, 111, 116, 97, 108, 123, 99, 111, 114, 101, 61, 126,
        34, 36, 99, 111, 114, 101, 34, 44, 105, 110, 115, 116, 97, 110, 99, 101, 61, 126, 34,
        36, 105, 110, 115, 116, 97, 110, 99, 101, 34, 125, 91, 53, 109, 93, 41, 41, 32, 98,
        121, 32, 40, 104, 97, 110, 100, 108, 101, 114, 41>>>>,
   cache |->
    <<<<49, 48, 48, 32, 42, 32, 40, 114, 97, 116, 101, 40, 115, 111, 108, 114, 95, 109, 101,
        116, 114, 105, 99, 115, 95, 99, 111, 114, 101, 95, 113, 117, 101, 114, 121, 95, 114,
        101, 115, 117, 108, 116, 95, 99, 97, 99, 104, 101, 95, 104, 105, 116, 115, 95, 116,
        111, 116, 97, 108, 123, 99, 111, 114, 101, 61, 126, 34, 36, 99, 111, 114, 101, 34, 44,
        105, 110, 115, 116, 97, 110, 99, 101, 61, 126, 34, 36, 105, 110, 115, 116, 97, 110,
        99, 101, 34, 125, 91, 53, 109, 93, 41, 32, 47, 32, 40, 114, 97, 116, 101, 40, 115,
        111, 108, 114, 95, 109, 101, 116, 114, 105, 99, 115, 95, 99, 111, 114, 101, 95, 113,
        117, 101, 114, 121, 95, 114, 101, 115, 117, 108, 116, 95, 99, 97, 99, 104, 101, 95,
        104, 105, 116, 115, 95, 116, 111, 116, 97, 108, 123, 99, 111, 114, 101, 61, 126, 34,
        36, 99, 111, 114, 101, 34, 44, 105, 110, 115, 116, 97, 110, 99, 101, 61, 126, 34, 36,
        105, 110, 115, 116, 97, 110, 99, 101, 34, 125, 91, 53, 109, 93, 41, 32, 43, 32, 114,
        97, 116, 101, 40, 115, 111, 108, 114, 95, 109, 101, 116, 114, 105, 99, 115, 95, 99,
        111, 114, 101, 95, 113, 117, 101, 114, 121, 95, 114, 101, 115, 117, 108, 116, 95, 99,
        97, 99, 104, 101, 95, 109, 105, 115, 115, 101, 115, 95, 116, 111, 116, 97, 108, 123,
        99, 111, 114, 101, 61, 126, 34, 36, 99, 111, 114, 101, 34, 44, 105, 110, 115, 116, 97,
        110, 99, 101, 61, 126, 34, 36, 105, 110, 115, 116, 97, 110, 99, 101, 34, 125, 91, 53,
        109, 93, 41, 41, 41>>>>,
   trend |->
    <<<<114, 97, 116, 101, 40, 115, 111, 108, 114, 95, 109, 101, 116, 114, 105, 99, 115, 95,
        99, 111, 114, 101, 95, 113, 117, 101, 114, 121, 95, 116, 105, 109, 101, 95, 115, 117,
        109, 123, 99, 111, 114, 101, 61, 126, 34, 36, 99, 111, 114, 101, 34, 44, 105, 110,
        115, 116, 97, 110, 99, 101, 61, 126, 34, 36, 105, 110, 115, 116, 97, 110, 99, 101, 34,
        125, 91, 53, 109, 93, 41, 32, 47, 32, 114, 97, 116, 101, 40, 115, 111, 108, 114, 95,
        109, 101, 116, 114, 105, 99, 115, 95, 99, 111, 114, 101, 95, 113, 117, 101, 114, 121,
        95, 114, 101, 113, 117, 101, 115, 116, 115, 95, 116, 111, 116, 97, 108, 123, 99, 111,
        114, 101, 61, 126, 34, 36, 99, 111, 114, 101, 34, 44, 105, 110, 115, 116, 97, 110, 99,
        101, 61, 126, 34, 36, 105, 110, 115, 116, 97, 110, 99, 101, 34, 125, 91, 53, 109, 93,
        41>>>>]

\* faulty variant of NextId: the panels are counted, their ids not looked at
\* (C14 rejects it)
NextIdByCount(existing_panels) == Len(existing_panels) + 1

\* next_id = max([p.get("id", 0) for p in existing_panels], default=0) + 1
NextId(existing_panels) ==
  MaxOf([i \in 1..Len(existing_panels) |-> Get(existing_panels[i], "id", 0)], 0) + 1

\* next_y = max([p.get("gridPos", {}).get("y", 0) + p.get("gridPos", {}).get("h", 0) ...],
\*              default=0)
NextY(existing_panels) ==
  MaxOf([i \in 1..Len(existing_panels) |->
           Get(Get(existing_panels[i], "gridPos", NoGridPos), "y", 0)
           + Get(Get(existing_panels[i], "gridPos", NoGridPos), "h", 0)], 0)

\* query_row, panel_latency, panel_slow, panel_rate, panel_cache and
\* panel_trend, next_id and next_y being the values first computed
NewPanels(next_id, next_y) ==
  <<Panel(next_id, "row", "Query Performance Analysis", 1, 24, 0, next_y, <<>>),
    Panel(next_id + 1, "graph", "Query Latency Percentiles", 8, 12, 0, next_y + 1, NewExprs.latency),
    Panel(next_id + 2, "graph", "Slow Queries (>1s)", 8, 12, 12, next_y + 1, NewExprs.slow),
    Panel(next_id + 3, "graph", "Query Rate by Handler", 8, 12, 0, next_y + 9, NewExprs.rate),
    Panel(next_id + 4, "stat", "Query Cache Hit Ratio", 8, 12, 12, next_y + 9, NewExprs.cache),
    Panel(next_id + 5, "graph", "Average Query Time Trend", 8, 24, 0, next_y + 17, NewExprs.trend)>>

\* add_query_performance_panels(dashboard): the six appends raise KeyError
\* on a dashboard without the key "panels"
add_query_performance_panels(dashboard) ==
  IF "panels" \notin dashboard.keys THEN [exc |-> "KeyError", val |-> dashboard]
  ELSE [exc |-> "",
        val |-> [dashboard EXCEPT
                   !.panels = @ \o NewPanels(NextId(Get(dashboard, "panels", <<>>)),
                                             NextY(Get(dashboard, "panels", <<>>))),
                   !.version = Get(dashboard, "version", 0) + 1,
                   !.refresh = "30s",
                   !.keys = @ \cup {"version", "refresh"}]]

\* The file at the dashboard path: whether it exists, the exception
\* json.load raises on it (loads, "" for none: "JSONDecodeError" for text
\* that is no JSON), the type of the JSON value it holds (top) and, for an
\* object, the document (doc).
\* main of add-query-performance-dashboard.py: what becomes of the file,
\* the exception that ends the run, the exit status, and whether the backup
\* file was written.  The backup is written once the file is loaded, the
\* file itself only when all else is done.
AddQueryPerformanceMain(file) ==
  IF ~file.exists THEN [file |-> file, exc |-> "SystemExit", code |-> 1, backup |-> FALSE]
  ELSE IF file.loads # "" THEN [file |-> file, exc |-> file.loads, code |-> 1, backup |-> FALSE]
  ELSE IF file.top # "object"
  THEN [file |-> file, exc |-> "AttributeError", code |-> 1, backup |-> TRUE]
  ELSE IF add_query_performance_panels(file.doc).exc # ""
  THEN [file |-> file, exc |-> add_query_performance_panels(file.doc).exc, code |-> 1,
        backup |-> TRUE]
  ELSE [file |-> [file EXCEPT !.doc = add_query_performance_panels(file.doc).val],
        exc |-> "", code |-> 0, backup |-> TRUE]

\* s in text
Contains(text, s) ==
  \E i \in 1..(Len(text) - Len(s) + 1) : SubSeq(text, i, i + Len(s) - 1) = s

\* text.find(s) + 1, s being in text
FirstIndex(text, s) ==
  CHOOSE i \in 1..(Len(text) - Len(s) + 1) :
    /\ SubSeq(text, i, i + Len(s) - 1) = s
    /\ \A j \in 1..(i - 1) : SubSeq(text, j, j + Len(s) - 1) # s

\* text.replace(old, new), old not empty
RECURSIVE Replace(_, _, _)
Replace(text, old, new) ==
  IF ~Contains(text, old) THEN text
  ELSE SubSeq(text, 1, FirstIndex(text, old) - 1) \o new
       \o Replace(SubSeq(text, FirstIndex(text, old) + Len(old), Len(text)), old, new)

\* re.sub(r'core="[^"]*"', 'core=~"$core"', text): the leftmost 'core="'
\* matches when a '"' follows it, and then up to the nearest one
RECURSIVE ReSubCore(_)
ReSubCore(text) ==
  LET core_eq_quote == <<99, 111, 114, 101, 61, 34>>
      core_var == <<99, 111, 114, 101, 61, 126, 34, 36, 99, 111, 114, 101, 34>>
  IN IF ~Contains(text, core_eq_quote) THEN text
     ELSE IF ~Contains(SubSeq(text, FirstIndex(text, core_eq_quote) + 6, Len(text)), <<34>>)
     THEN text
     ELSE SubSeq(text, 1, FirstIndex(text, core_eq_quote) - 1) \o core_var
          \o ReSubCore(SubSeq(text,
                              FirstIndex(text, core_eq_quote) + 6
                                + FirstIndex(SubSeq(text, FirstIndex(text, core_eq_quote) + 6,
                                                    Len(text)), <<34>>),
                              Len(text)))

\* the instance filter, lines 103 to 106, with the literals 'instance=',
\* 'job="solr-exporter"', 'job="$job",instance=~"$instance"' and 'job="$job"'
RewriteJob(expr) ==
  LET instance_eq == <<105, 110, 115, 116, 97, 110, 99, 101, 61>>
      job_solr_exporter ==
        <<106, 111, 98, 61, 34, 115, 111, 108, 114, 45, 101, 120, 112, 111, 114, 116, 101, 114,
          34>>
      job_instance_vars ==
        <<106, 111, 98, 61, 34, 36, 106, 111, 98, 34, 44, 105, 110, 115, 116, 97, 110, 99, 101,
          61, 126, 34, 36, 105, 110, 115, 116, 97, 110, 99, 101, 34>>
      job_var == <<106, 111, 98, 61, 34, 36, 106, 111, 98, 34>>
  IN IF ~Contains(expr, instance_eq) /\ Contains(expr, job_solr_exporter)
     THEN Replace(expr, job_solr_exporter, job_instance_vars)
     ELSE IF Contains(expr, job_solr_exporter) THEN Replace(expr, job_solr_exporter, job_var)
     ELSE expr

\* the core filter, lines 109 to 116, with the literals 'core=',
\* 'solr_metrics_core', 'core="', '}' and ',core=~"$core"}'
RewriteCore(expr) ==
  LET core_eq == <<99, 111, 114, 101, 61>>
      solr_metrics_core ==
        <<115, 111, 108, 114, 95, 109, 101, 116, 114, 105, 99, 115, 95, 99, 111, 114, 101>>
      core_eq_quote == <<99, 111, 114, 101, 61, 34>>
      core_var_brace == <<44, 99, 111, 114, 101, 61, 126, 34, 36, 99, 111, 114, 101, 34, 125>>
  IN IF ~Contains(expr, core_eq) /\ Contains(expr, solr_metrics_core)
     THEN IF Contains(expr, core_eq_quote) THEN ReSubCore(expr)
          ELSE IF Contains(expr, <<125>>) THEN Replace(expr, <<125>>, core_var_brace)
          ELSE expr
     ELSE expr

\* the loop over a panel's targets: what each target['expr'] becomes
RewritePanel(panel) ==
  IF "targets" \in panel.keys
  THEN [panel EXCEPT !.exprs = [i \in 1..Len(panel.exprs) |->
                                  RewriteCore(RewriteJob(panel.exprs[i]))]]
  ELSE panel

\* add-grafana-templating.py on the file at dashboard_path: open() fails on
\* an absent file, json.load on one it cannot load, the assignment to
\* dashboard['templating'] on a value that is no object (TypeError), each
\* ending the run with a traceback and the file as it was; of the
\* "templating" section set, the names of its three variables are kept.
\* The script writes no backup.
AddTemplatingMain(file) ==
  IF ~file.exists
  THEN [file |-> file, exc |-> "FileNotFoundError", code |-> 1, backup |-> FALSE]
  ELSE IF file.loads # "" THEN [file |-> file, exc |-> file.loads, code |-> 1, backup |-> FALSE]
  ELSE IF file.top # "object"
  THEN [file |-> file, exc |-> "TypeError", code |-> 1, backup |-> FALSE]
  ELSE [file |->
          [file EXCEPT
             !.doc.templating = <<"instance", "job", "core">>,
             !.doc.panels = [i \in 1..Len(Get(file.doc, "panels", <<>>)) |->
                               RewritePanel(Get(file.doc, "panels", <<>>)[i])],
             !.doc.title = "Solr Monitoring (Multi-Instance)",
             !.doc.description = "Solr performance monitoring dashboard with support for multiple instances. Use template variables to filter by instance, job, and core.",
             !.doc.version = Get(file.doc, "version", 0) + 1,
             !.doc.keys = @ \cup {"templating", "title", "description", "version"}],
        exc |-> "", code |-> 0, backup |-> FALSE]

\* a dashboard document with the keys given
Dashboard(keys, panels, version, templating, title) ==
  [keys |-> keys, panels |-> panels, version |-> version, refresh |-> "",
   templating |-> templating, title |-> title, description |-> ""]

\* the file at the dashboard path
AbsentFile ==
  [exists |-> FALSE, loads |-> "", top |-> "object", doc |-> Dashboard({}, <<>>, 0, <<>>, "")]

\* a file holding the JSON object doc
JsonFile(doc) == [exists |-> TRUE, loads |-> "", top |-> "object", doc |-> doc]

\* Queries of existing panels:
\*   up: 'up{job="solr-exporter"}'
\*   errors: 'solr_metrics_core_errors_total{job="solr-exporter"}'
\*   ratio: 'solr_metrics_core_a{instance="s1",job="solr-exporter"} / solr_met
\*     rics_core_b{}'
\*   nobrace: 'solr_metrics_core_up'
\*   core: 'solr_metrics_core_a{core="c1"}'
Exprs ==
  [up |->
    <<117, 112, 123, 106, 111, 98, 61, 34, 115, 111, 108, 114, 45, 101, 120, 112, 111, 114,
      116, 101, 114, 34, 125>>,
   errors |->
    <<115, 111, 108, 114, 95, 109, 101, 116, 114, 105, 99, 115, 95, 99, 111, 114, 101, 95,
      101, 114, 114, 111, 114, 115, 95, 116, 111, 116, 97, 108, 123, 106, 111, 98, 61, 34,
      115, 111, 108, 114, 45, 101, 120, 112, 111, 114, 116, 101, 114, 34, 125>>,
   ratio |->
    <<115, 111, 108, 114, 95, 109, 101, 116, 114, 105, 99, 115, 95, 99, 111, 114, 101, 95, 97,
      123, 105, 110, 115, 116, 97, 110, 99, 101, 61, 34, 115, 49, 34, 44, 106, 111, 98, 61,
      34, 115, 111, 108, 114, 45, 101, 120, 112, 111, 114, 116, 101, 114, 34, 125, 32, 47, 32,
      115, 111, 108, 114, 95, 109, 101, 116, 114, 105, 99, 115, 95, 99, 111, 114, 101, 95, 98,
      123, 125>>,
   nobrace |->
    <<115, 111, 108, 114, 95, 109, 101, 116, 114, 105, 99, 115, 95, 99, 111, 114, 101, 95,
      117, 112>>,
   core |->
    <<115, 111, 108, 114, 95, 109, 101, 116, 114, 105, 99, 115, 95, 99, 111, 114, 101, 95, 97,
      123, 99, 111, 114, 101, 61, 34, 99, 49, 34, 125>>]

\* a graph panel of an existing dashboard
Graph(id, y, exprs) == Panel(id, "graph", "Requests", 8, 24, 0, y, exprs)

\* a panel with neither "id" nor "gridPos"
Bare(exprs) ==
  [Panel(0, "graph", "Requests", 0, 0, 0, 0, exprs) EXCEPT
     !.keys = {"title", "type", "targets"}, !.gridPos = NoGridPos]

\* The dashboard files the scripts are run on: no file; a document without
\* "panels"; an empty panels list; panels with ids 1 and 2; ids 3 and 7 and
\* no "version"; a panel without id before one with id 4; the id 2 twice;
\* a file that is no JSON; a file holding the JSON list [].
DashboardFiles ==
  {AbsentFile,
   JsonFile(Dashboard({"title"}, <<>>, 0, <<>>, "Solr")),
   JsonFile(Dashboard({"panels", "version", "title"}, <<>>, 1, <<>>, "Solr")),
   JsonFile(Dashboard({"panels", "version", "title", "templating"},
                      <<Graph(1, 0, <<Exprs.up, Exprs.errors>>), Graph(2, 8, <<Exprs.ratio>>)>>,
                      5, <<"datasource">>, "Solr")),
   JsonFile(Dashboard({"panels", "title"},
                      <<Graph(3, 0, <<Exprs.nobrace, Exprs.core>>), Graph(7, 8, <<>>)>>,
                      0, <<>>, "Solr")),
   JsonFile(Dashboard({"panels", "version", "title"},
                      <<Bare(<<Exprs.up>>), Graph(4, 0, <<Exprs.core>>)>>, 2, <<>>, "Solr")),
   JsonFile(Dashboard({"panels", "version", "title"},
                      <<Graph(2, 0, <<Exprs.up>>), Graph(2, 8, <<Exprs.errors>>)>>, 1, <<>>, "Solr")),
   [JsonFile(Dashboard({}, <<>>, 0, <<>>, "")) EXCEPT !.loads = "JSONDecodeError"],
   [JsonFile(Dashboard({}, <<>>, 0, <<>>, "")) EXCEPT !.top = "list"]}

\* runs of the scripts in one behaviour
MaxRuns == 4

\* The last run of a script: which one, the exception that ended it, its
\* exit status, whether it wrote a backup file, the number of runs so far,
\* and whether the run before it was of the same script.
NoRun ==
  [script |-> "none", exc |-> "", code |-> 0, backup |-> FALSE, n |-> 0, again |-> FALSE]

RunOutcome(last, script, r) ==
  [script |-> script, exc |-> r.exc, code |-> r.code, backup |-> r.backup, n |-> last.n + 1,
   again |-> last.script = script]

\* the health aggregator not running
HealthIdle ==
  solr = [ping |-> Upstream("unreachable", TextRefused, PyNone),
          cores |-> Upstream("unreachable", TextRefused, PyNone),
          system |-> Upstream("unreachable", TextRefused, PyNone)]
  /\ req = NoRequest

\* no dashboard script run, no dashboard file
DashboardIdle == board = AbsentFile /\ run = NoRun /\ before = AbsentFile

(***************************************************************************)
(* The command-line tool and its store                                     *)
(***************************************************************************)

Init == store \in StoreStates /\ call = NoCall /\ prev = NoCall /\ HealthIdle /\ DashboardIdle

\* load_existing_hashes on the store file
Load ==
  /\ call.op = "none"
  /\ call' = LoadCall(store)
  /\ UNCHANGED <<store, prev, solr, req, board, run, before>>

\* verify_and_reuse(username, password, store path)
Reuse ==
  /\ call.op = "none"
  /\ \E u \in Usernames, p \in Passwords, seed \in Seeds : call' = ReuseCall(u, p, store, seed)
  /\ UNCHANGED <<store, prev, solr, req, board, run, before>>

\* the same call once more, the store file not modified in between
ReuseAgain ==
  /\ call.op = "reuse" /\ prev.op = "none"
  /\ \E seed \in Seeds : call' = ReuseCall(call.username, call.password, store, seed)
  /\ prev' = call
  /\ UNCHANGED <<store, solr, req, board, run, before>>

\* one run of the script
Main ==
  /\ call.op = "none"
  /\ \E a \in CommandLines, seed \in Seeds : call' = MainCall(a, store, seed)
  /\ UNCHANGED <<store, prev, solr, req, board, run, before>>

\* the process has ended; whoever owns the store may have rewritten it
Return ==
  /\ call.op # "none"
  /\ store' \in StoreStates
  /\ call' = NoCall /\ prev' = NoCall
  /\ UNCHANGED <<solr, req, board, run, before>>

Next == Load \/ Reuse \/ ReuseAgain \/ Main \/ Return

Spec == Init /\ [][Next]_vars

(***************************************************************************)
(* The hasher's functions on their own                                     *)
(***************************************************************************)

InitHasher == store = StoreFile("absent", "object", "missing", "missing", EmptyDict)
              /\ call = NoCall /\ prev = NoCall /\ HealthIdle /\ DashboardIdle

\* hash_password(password) and hash_password(password, salt)
Hash ==
  /\ call.op = "none"
  /\ \E p \in Passwords, salt \in SaltArgs : \E seed \in (IF salt.some THEN {0} ELSE Seeds) :
       call' = HashCall(p, salt, seed)
  /\ UNCHANGED <<store, prev, solr, req, board, run, before>>

\* the same call once more, whatever the random source gives this time
HashAgain ==
  /\ call.op = "hash" /\ prev.op = "none"
  /\ \E seed \in Seeds : call' = HashCall(call.password, call.salt, seed)
  /\ prev' = call
  /\ UNCHANGED <<store, solr, req, board, run, before>>

\* verify_password on a record made from the one hash_password returned
Verify ==
  /\ call.op = "hash" /\ prev.op = "none" /\ call.exc = ""
  /\ \E c \in VerifyCases(call.password, call.ret.v) : call' = VerifyCall(c[1], c[2])
  /\ prev' = call
  /\ UNCHANGED <<store, solr, req, board, run, before>>

\* verify_password on a malformed record, no record having been made
VerifyMalformed ==
  /\ call.op = "none"
  /\ \E p \in Passwords, v \in {PyStr(<<97, 32, 98, 32, 99>>), PyStr(<<97, 32, 98>>), PyInt(0)} :
       call' = VerifyCall(p, v)
  /\ UNCHANGED <<store, prev, solr, req, board, run, before>>

NextHasher == Hash \/ HashAgain \/ Verify \/ VerifyMalformed

SpecHasher == InitHasher /\ [][NextHasher]_vars

(***************************************************************************)
(* The health aggregator serving requests                                  *)
(***************************************************************************)

HasherIdle ==
  store = StoreFile("absent", "object", "missing", "missing", EmptyDict)
  /\ call = NoCall /\ prev = NoCall

InitHealth == solr \in SolrStates /\ req = NoRequest /\ HasherIdle /\ DashboardIdle

\* a GET request arrives; the server takes one request at a time
Request ==
  /\ req.pc = "idle"
  /\ \E path \in {"/health", "/ping", "/", "/health?pretty=1"} : req' = do_GET(path)
  /\ UNCHANGED <<solr, store, call, prev, board, run, before>>

\* handle_health: solr_health = self.check_solr() and the branch on it
CheckSolr ==
  /\ req.pc = "check_solr"
  /\ req' = [req EXCEPT !.issued = Append(@, "ping"),
                         !.health_data = AfterCheckSolr(@, check_solr(solr.ping)),
                         !.pc = IF CoresWanted(AfterCheckSolr(req.health_data, check_solr(solr.ping)))
                                THEN "get_cores" ELSE "respond"]
  /\ UNCHANGED <<solr, store, call, prev, board, run, before>>

\* handle_health: health_data["cores"] = self.get_cores()
GetCores ==
  /\ req.pc = "get_cores"
  /\ req' = [req EXCEPT !.issued = Append(@, "cores"),
                         !.health_data.cores = get_cores(solr.cores),
                         !.pc = "get_system_info"]
  /\ UNCHANGED <<solr, store, call, prev, board, run, before>>

\* handle_health: health_data["system"] = self.get_system_info()
GetSystemInfo ==
  /\ req.pc = "get_system_info"
  /\ req' = [req EXCEPT !.issued = Append(@, "system"),
                         !.health_data.system = get_system_info(solr.system),
                         !.pc = "respond"]
  /\ UNCHANGED <<solr, store, call, prev, board, run, before>>

\* handle_health: the status code and the document are sent
Respond ==
  /\ req.pc = "respond"
  /\ req' = [req EXCEPT !.code = StatusCode(req.health_data),
                         !.body = [kind |-> "health", doc |-> req.health_data],
                         !.pc = "sent"]
  /\ UNCHANGED <<solr, store, call, prev, board, run, before>>

\* the connection is closed
Close ==
  /\ req.pc = "sent"
  /\ req' = NoRequest
  /\ UNCHANGED <<solr, store, call, prev, board, run, before>>

\* Solr, a process of its own, answers one of its endpoints differently from
\* now on
SolrChanges ==
  /\ \E e \in DOMAIN Responses : \E resp \in Responses[e] \ {solr[e]} :
       solr' = [solr EXCEPT ![e] = resp]
  /\ UNCHANGED <<req, store, call, prev, board, run, before>>

NextHealth == Request \/ CheckSolr \/ GetCores \/ GetSystemInfo \/ Respond \/ Close \/ SolrChanges

SpecHealth == InitHealth /\ [][NextHealth]_vars

(***************************************************************************)
(* The dashboard scripts run on a dashboard file                           *)
(***************************************************************************)

InitDashboard ==
  /\ board \in DashboardFiles /\ run = NoRun /\ before = board
  /\ HasherIdle /\ HealthIdle

\* one run of add-query-performance-dashboard.py
RunAddQueryPerformance ==
  /\ run.n < MaxRuns
  /\ board' = AddQueryPerformanceMain(board).file
  /\ run' = RunOutcome(run, "add-query-performance-dashboard", AddQueryPerformanceMain(board))
  /\ before' = board
  /\ UNCHANGED <<store, call, prev, solr, req>>

\* one run of add-grafana-templating.py on the same file
RunAddTemplating ==
  /\ run.n < MaxRuns
  /\ board' = AddTemplatingMain(board).file
  /\ run' = RunOutcome(run, "add-grafana-templating", AddTemplatingMain(board))
  /\ before' = board
  /\ UNCHANGED <<store, call, prev, solr, req>>

NextDashboard == RunAddQueryPerformance \/ RunAddTemplating

SpecDashboard == InitDashboard /\ [][NextDashboard]_vars

(***************************************************************************)
(* Properties                                                              *)
(***************************************************************************)

\* C1: round trip.  When hash_password(P), called without a salt, has
\* returned a record (made with a freshly drawn 32-byte salt, whatever its
\* bytes), verify_password(P, that record) returns True.
C1_RoundTrip ==
  (call.op = "verify" /\ prev.op = "hash" /\ ~prev.salt.some /\ prev.exc = ""
     /\ call.password = prev.password /\ call.arg = prev.ret)
  => (call.exc = "" /\ call.ret = PyBool(TRUE))

\* C1 happens: a record made under a drawn salt of 32 bytes that are not all
\* zero, for a password with multi-byte characters, has been verified
C1_Witness ==
  /\ call.op = "verify" /\ prev.op = "hash" /\ ~prev.salt.some /\ prev.exc = ""
  /\ prev.drawn = 1 /\ prev.seed = 1 /\ prev.password = PwUnicode
  /\ call.password = prev.password /\ call.arg = prev.ret
  /\ Len(B64Decode(Split(prev.ret.v, 32)[2]).val) = DefaultSaltBytes
  /\ call.ret = PyBool(TRUE)

\* C2: verify_password(P, R) returns True if and only if R is a str that
\* splits on single spaces into exactly two tokens, the second of which
\* decodes, and R is as a full string the record
\* hash_password(P, salt = the decoded second token).
C2_ExactRecord ==
  call.op = "verify" =>
    ((call.ret = PyBool(TRUE)) <=>
       (/\ call.arg.t = "str"
        /\ Len(Split(call.arg.v, 32)) = 2
        /\ B64Decode(Split(call.arg.v, 32)[2]).exc = ""
        /\ hash_password(call.password,
                         SomeSalt(B64Decode(Split(call.arg.v, 32)[2]).val), 0)
             = [exc |-> "", val |-> call.arg.v, drawn |-> 0]))

\* C3: verify_password is total.  Every call returns a bool and raises
\* nothing, and returns False whenever the record is not a str, does not
\* split into exactly two tokens, carries a salt token that does not
\* decode, or the password has no UTF-8 encoding.
C3_Total ==
  call.op = "verify" =>
    /\ call.exc = ""
    /\ call.ret \in {PyBool(TRUE), PyBool(FALSE)}
    /\ (\/ call.arg.t # "str"
        \/ Len(Split(call.arg.v, 32)) # 2
        \/ B64Decode(Split(call.arg.v, 32)[2]).exc # ""
        \/ EncodeUtf8(call.password).exc # "")
       => call.ret = PyBool(FALSE)

\* C3 happens: a two-token record whose salt token cannot be decoded has
\* been verified, and the answer was False
C3_Witness ==
  /\ call.op = "verify" /\ call.arg.t = "str"
  /\ Len(Split(call.arg.v, 32)) = 2
  /\ B64Decode(Split(call.arg.v, 32)[2]).exc # ""
  /\ call.exc = "" /\ call.ret = PyBool(FALSE)

\* C4: load_existing_hashes never fails the caller.  For every state of the
\* store path it raises nothing and returns a mapping, an empty one when
\* the file is absent, unreadable or corrupt.
C4_LoadNeverFails ==
  call.op = "load" =>
    /\ call.exc = ""
    /\ call.ret = PyDict
    /\ (store.kind # "json" => call.map = EmptyDict)

\* C5: idempotence for every store.  Two consecutive calls
\* verify_and_reuse(u, pw, store), the store file not modified between
\* them, return the same string.
C5_Idempotent ==
  (call.op = "reuse" /\ prev.op = "reuse") =>
    (call.exc = "" /\ prev.exc = "" /\ call.ret = prev.ret)

\* C5, amended: two consecutive calls verify_and_reuse(u, pw, store), the
\* store file not modified between them, have the same outcome whenever the
\* store holds an entry for u that verifies against pw: when json.load
\* loads the file, both return that entry and draw no salt; when it does
\* not, both raise the exception json.load raised.  When the store holds
\* no such entry, two calls that return return the same string only if
\* they drew the same salt.
C5_IdempotentOnMatch ==
  (call.op = "reuse" /\ prev.op = "reuse") =>
    IF /\ store.top = "object" /\ store.auth = "object" /\ store.creds = "object"
       /\ call.username \in DOMAIN store.entries
       /\ verify_password(call.password, store.entries[call.username]).val
    THEN IF store.kind = "json"
         THEN /\ call.exc = "" /\ prev.exc = ""
              /\ call.ret = store.entries[call.username]
              /\ prev.ret = call.ret
              /\ call.drawn = 0 /\ prev.drawn = 0
         ELSE /\ call.exc = load_existing_hashes(store).exc
              /\ call.exc \in {"ValueError", "RecursionError"}
              /\ prev.exc = call.exc
              /\ call.drawn = 0 /\ prev.drawn = 0
    ELSE (call.exc = "" /\ prev.exc = "") =>
           ((call.ret = prev.ret) <=> (call.seed = prev.seed))

\* C5 happens: the second of two calls, under another state of the random
\* source than the first, has returned the stored record again
C5_Witness ==
  /\ call.op = "reuse" /\ prev.op = "reuse"
  /\ store.kind = "json"
  /\ call.username = "alice" /\ call.password = PwSecret
  /\ call.seed # prev.seed
  /\ call.exc = "" /\ call.ret = PyStr(ScenarioRecord) /\ prev.ret = call.ret
  /\ call.drawn = 0 /\ prev.drawn = 0

\* C6: reuse on match.  Whenever the store contains an entry for u and
\* verify_password(pw, that entry) is True, verify_and_reuse(u, pw, store)
\* returns that entry unchanged and draws no salt; so a returned string
\* differs from the stored entry only when there is no entry for u or the
\* password does not verify against it.
C6_ReuseOnMatch ==
  call.op = "reuse" =>
    ((/\ store.top = "object" /\ store.auth = "object" /\ store.creds = "object"
      /\ call.username \in DOMAIN store.entries
      /\ verify_password(call.password, store.entries[call.username]).val)
     => (/\ call.exc = ""
         /\ call.ret = store.entries[call.username]
         /\ call.drawn = 0))

\* C7: fresh record otherwise.  For a password that has a UTF-8 encoding,
\* when the store holds no entry for the username that verifies against
\* the password (the file absent or empty, no entry, or an entry that does
\* not verify), verify_and_reuse returns the record hash_password(password)
\* makes with a newly drawn salt, and that record verifies against the
\* password.
C7_FreshOtherwise ==
  (/\ call.op = "reuse" /\ prev.op = "none"
   /\ EncodeUtf8(call.password).exc = ""
   /\ ~(/\ load_existing_hashes(store).exc = ""
        /\ load_existing_hashes(store).kind = "dict"
        /\ Truthy(DictGet(load_existing_hashes(store).map, call.username))
        /\ verify_password(call.password,
                           DictGet(load_existing_hashes(store).map, call.username)).val))
  => (/\ call.exc = ""
      /\ call.drawn = 1
      /\ call.ret = PyStr(hash_password(call.password, NoSalt, call.seed).val)
      /\ verify_password(call.password, call.ret).val)

\* C8: hash_password with a salt supplied is a function of (password,
\* salt): a second call returns what the first did.  Every record returned
\* is base64(SHA256(SHA256(salt || utf8(password)))), one space,
\* base64(salt): two tokens, the digest first, the second the encoding of
\* exactly the salt hashed.  "secret123" under 32 zero bytes gives the
\* record of the concrete scenario.
C8_Deterministic ==
  call.op = "hash" =>
    /\ (prev.op = "hash" /\ call.salt.some)
         => (call.exc = prev.exc /\ call.ret = prev.ret)
    /\ call.exc = "" =>
         /\ call.ret.t = "str"
         /\ Len(Split(call.ret.v, 32)) = 2
         /\ Split(call.ret.v, 32)[1]
              = B64Encode(SHA256(SHA256(
                  (IF call.salt.some THEN call.salt.bytes
                   ELSE generate_random_salt(DefaultSaltBytes, call.seed).val)
                  \o EncodeUtf8(call.password).val)))
         /\ Split(call.ret.v, 32)[2]
              = B64Encode(IF call.salt.some THEN call.salt.bytes
                          ELSE generate_random_salt(DefaultSaltBytes, call.seed).val)
         /\ B64Decode(Split(call.ret.v, 32)[2])
              = [exc |-> "",
                 val |-> IF call.salt.some THEN call.salt.bytes
                         ELSE generate_random_salt(DefaultSaltBytes, call.seed).val]
    /\ (call.password = PwSecret /\ ~call.salt.some /\ call.seed = 0)
         => call.ret = PyStr(ScenarioRecord)

\* C8 happens: hash_password has been called twice with the same password
\* and the same two-byte salt, and has returned the same record
C8_Witness ==
  /\ call.op = "hash" /\ prev.op = "hash"
  /\ call.salt = SomeSalt(<<255, 254>>) /\ prev.salt = call.salt
  /\ call.password = PwUnicode /\ prev.password = call.password
  /\ call.seed # prev.seed
  /\ call.exc = "" /\ call.ret = prev.ret /\ call.ret.t = "str"

\* C9: salt length.  A record made by a run of the script carries a salt of
\* exactly N bytes when the run was given --salt-bytes N, and of exactly 32
\* bytes when it was given no such option.
C9_SaltLength ==
  (call.op = "main" /\ call.out = "record" /\ call.drawn = 1) =>
    Len(B64Decode(Split(call.ret.v, 32)[2]).val)
      = (IF call.args.salt_option THEN call.args.salt_bytes ELSE DefaultSaltBytes)

\* C10: command-line outcome.  A run with a positional password (one that
\* has a UTF-8 encoding) and neither --verify nor --reuse prints a record
\* and exits 0; usage is printed, with exit status 1, only by a run with no
\* arguments; --verify exits 0 on a match and 1 on a mismatch; --reuse
\* (again with an encodable password) exits 0.
C10_Outcome ==
  call.op = "main" =>
    /\ (/\ call.args.positional /\ ~call.args.verify /\ ~call.args.reuse
        /\ EncodeUtf8(call.args.password).exc = "")
         => (call.out = "record" /\ call.code = 0)
    /\ call.out = "usage" => (call.code = 1 /\ call.args = NoArgs)
    /\ call.args.verify
         => (\/ call.out = "match" /\ call.code = 0
             \/ call.out = "no match" /\ call.code = 1)
    /\ (call.args.reuse /\ EncodeUtf8(call.args.password).exc = "")
         => call.code = 0

\* C11: every response to GET /health carries status code 200 when the
\* "status" of the document sent is "healthy" and 503 when it is anything
\* else; every response to GET /ping carries 200 and the document
\* {"status": "ok"}, whatever Solr answers, no request having been sent
\* to Solr.
C11_StatusCode ==
  req.pc = "sent" =>
    /\ req.path = "/health" =>
         /\ req.body.kind = "health"
         /\ req.code = (IF req.body.doc.status = "healthy" THEN 200 ELSE 503)
    /\ req.path = "/ping" =>
         /\ req.code = 200
         /\ req.body = [kind |-> "ping", doc |-> [status |-> "ok"]]
         /\ req.issued = <<>>

\* a /health response with status "healthy" has been sent
C11_Witness ==
  /\ req.pc = "sent" /\ req.path = "/health"
  /\ req.body.kind = "health" /\ req.body.doc.status = "healthy" /\ req.code = 200

\* C12: when one of the three checks of a /health request has failed (the
\* request to Solr failed or its answer was no usable JSON), the document
\* sent has a non-empty "errors" list and the status "unhealthy" or
\* "error", and the status code is 503.
C12_FailureReported ==
  (req.pc = "sent" /\ req.path = "/health"
   /\ \/ ~Truthy(DictGet(req.health_data.solr, "available"))
      \/ \E i \in 1..Len(req.health_data.cores) : "error" \in DOMAIN req.health_data.cores[i]
      \/ "error" \in DOMAIN req.health_data.system)
  => /\ req.body.doc.errors # <<>>
     /\ req.body.doc.status \in {"unhealthy", "error"}
     /\ req.code = 503

\* C15: within one /health request the ping request is the first sent to
\* Solr; the core-status and the system-info requests are sent, in that
\* order, only after the ping check reported Solr available; when the ping
\* check fails neither is sent and the document has "cores" [], "system"
\* {}, status "unhealthy" and the error "Solr is not available"; the status
\* sent is never the initial "unknown".
C15_Ordering ==
  /\ \E n \in 0..3 : req.issued = SubSeq(<<"ping", "cores", "system">>, 1, n)
  /\ Len(req.issued) >= 2 => Truthy(DictGet(req.health_data.solr, "available"))
  /\ (req.pc = "sent" /\ req.path = "/health") =>
       /\ req.issued # <<>> /\ req.issued[1] = "ping"
       /\ req.body.doc.status # "unknown"
       /\ IF Truthy(DictGet(req.body.doc.solr, "available"))
          THEN req.issued = <<"ping", "cores", "system">>
          ELSE /\ req.issued = <<"ping">>
               /\ req.body.doc.cores = <<>>
               /\ req.body.doc.system = EmptyDict
               /\ req.body.doc.status = "unhealthy"
               /\ req.body.doc.errors = <<SolrNotAvailable>>

\* a /health response has been sent after a ping check that failed
C15_Witness ==
  /\ req.pc = "sent" /\ req.path = "/health"
  /\ ~Truthy(DictGet(req.body.doc.solr, "available"))
  /\ req.issued = <<"ping">> /\ req.code = 503

\* C13: a dashboard script run a second time on the file it has just
\* rewritten leaves the dashboard (panels, templating, title, description
\* and version) as its first run left it: the six panels are not appended
\* again, and no query is rewritten again.
C13_Idempotent ==
  (run.again /\ run.exc = "") =>
    /\ board.doc.panels = before.doc.panels
    /\ board.doc.templating = before.doc.templating
    /\ board.doc.title = before.doc.title
    /\ board.doc.description = before.doc.description
    /\ Get(board.doc, "version", 0) = Get(before.doc, "version", 0)

\* C14: each application of add_query_performance_panels to a dashboard
\* with a panels list keeps the panels there were and appends exactly six
\* (row, latency, slow, rate, cache, trend, in that order) with the ids
\* m+1 .. m+6, m being the largest id of a top-level panel before the call
\* (0 if there is none), and adds exactly 1 to the version (a missing
\* version counting as 0); if the ids were pairwise distinct before the
\* call, they are after it.
C14_PanelIds ==
  (run.script = "add-query-performance-dashboard" /\ run.exc = "") =>
    /\ Len(board.doc.panels) = Len(before.doc.panels) + 6
    /\ SubSeq(board.doc.panels, 1, Len(before.doc.panels)) = before.doc.panels
    /\ \A k \in 1..6 :
         /\ "id" \in board.doc.panels[Len(before.doc.panels) + k].keys
         /\ \/ /\ \A i \in 1..Len(before.doc.panels) : "id" \notin before.doc.panels[i].keys
               /\ board.doc.panels[Len(before.doc.panels) + k].id = k
            \/ \E i \in 1..Len(before.doc.panels) :
                 /\ "id" \in before.doc.panels[i].keys
                 /\ \A j \in 1..Len(before.doc.panels) :
                      "id" \in before.doc.panels[j].keys
                        => before.doc.panels[j].id <= before.doc.panels[i].id
                 /\ board.doc.panels[Len(before.doc.panels) + k].id = before.doc.panels[i].id + k
    /\ [k \in 1..6 |-> board.doc.panels[Len(before.doc.panels) + k].type]
         = <<"row", "graph", "graph", "graph", "stat", "graph">>
    /\ [k \in 1..6 |-> board.doc.panels[Len(before.doc.panels) + k].title]
         = <<"Query Performance Analysis", "Query Latency Percentiles", "Slow Queries (>1s)",
             "Query Rate by Handler", "Query Cache Hit Ratio", "Average Query Time Trend">>
    /\ "version" \in board.doc.keys
    /\ board.doc.version = Get(before.doc, "version", 0) + 1
    /\ (\A i, j \in 1..Len(before.doc.panels) :
          (i # j /\ "id" \in before.doc.panels[i].keys /\ "id" \in before.doc.panels[j].keys)
            => before.doc.panels[i].id # before.doc.panels[j].id)
       => (\A i, j \in 1..Len(board.doc.panels) :
             (i # j /\ "id" \in board.doc.panels[i].keys /\ "id" \in board.doc.panels[j].keys)
               => board.doc.panels[i].id # board.doc.panels[j].id)

\* the panels have been added a second time to the dashboard that had the
\* panels 3 and 7: the panels 14 to 19 follow the panels 8 to 13
C14_Witness ==
  /\ run.script = "add-query-performance-dashboard" /\ run.exc = "" /\ run.again
  /\ Len(before.doc.panels) = 8 /\ before.doc.panels[2].id = 7
  /\ Len(board.doc.panels) = 14
  /\ board.doc.panels[9].id = 14 /\ board.doc.panels[14].id = 19

====
